---- MODULE Spec2Model ----
(***************************************************************************)
(* BlockWage payroll settlement core: the SalarySchedule contract, the two *)
(* PayrollVault contracts (the release-mode vault that ships in            *)
(* SalarySchedule.sol and the record-mode vault of PayrollVault.sol), the  *)
(* on-chain PaymentVerifier, the backend's POST /salary/verify handler and *)
(* the backend's local Verifier.                                           *)
(*                                                                         *)
(* A transaction is one atomic step.  A transaction that reverts changes   *)
(* no contract state; the model records its revert reason in `last`.       *)
(***************************************************************************)
EXTENDS Integers, Sequences, FiniteSets, TLC

(***************************************************************************)
(* Bounds of the model.                                                    *)
(***************************************************************************)
MaxSalary == 2
MaxFunds == 2

(***************************************************************************)
(* Addresses: address(0) and two employee wallets.                         *)
(***************************************************************************)
ZeroAddress == "0x0"
Employees == {"e1", "e2"}
Addresses == {ZeroAddress} \cup Employees

Salaries == 0 .. MaxSalary

(***************************************************************************)
(* SalarySchedule.Cadence and the cadence durations.                       *)
(***************************************************************************)
Minute == 0
Hourly == 1
Biweekly == 2
Monthly == 3
Cadences == {Minute, Hourly, Biweekly, Monthly}

MINUTE == 60
HOUR == 3600
DAY == 24 * 3600
BIWEEK == 14 * DAY
THIRTY_DAY == 30 * DAY

(* Period identifiers and timestamps the operations are called with: 0,    *)
(* values aligned to some cadences only, and one aligned to none.          *)
PeriodIds == {0, MINUTE, MINUTE + 1, HOUR, BIWEEK, THIRTY_DAY}
Timestamps == {0, HOUR, THIRTY_DAY}

VARIABLES
    employees,        \* SalarySchedule.employees: address -> Employee
    periodProcessed,  \* SalarySchedule.periodProcessed: address -> set of periodIds
    payrollVault,     \* SalarySchedule.payrollVault: "zero", "vault" or "other"
    scheduleOwner,    \* SalarySchedule.owner(): "admin" or "vault"
    vaultMode,        \* the PayrollVault contract deployed: "release" or "record"
    vaultEmployees,   \* PayrollVault.employees (the mirror): address -> EmployeeInfo
    paid,             \* PayrollVault.paid: address -> set of periodIds
    periodBalances,   \* PayrollVault.periodBalances: periodId -> amount
    totalBalance,     \* PayrollVault.totalBalance
    salarySchedule,   \* PayrollVault.salarySchedule is set (not address(0))
    paymentVerifier,  \* PayrollVault.paymentVerifier is set (not address(0))
    tokenBalance,     \* the token's balanceOf, for the vault and the employees
    proofConsumed,    \* PaymentVerifier: the raw proofs consumed
    isVerified,       \* PaymentVerifier.isVerified: set of <<employee, periodId>>
    released,         \* history: the pairs a release/recordPayment succeeded for
    settled,          \* history: those of them not cleared by adminClearPaid since
    processedPayouts, \* backend: the payout keys marked processed
    verifiedProofs,   \* backend: the facilitatorProof strings seen
    requests,         \* backend: the POST /salary/verify requests in progress
    orchestrated,     \* history: payout key -> releases the backend got mined
    proofSeen,        \* local Verifier: the rawHex strings seen
    localProcessed,   \* local Verifier: its processedPayouts keys
    registered,       \* history: the proof bytes the local Verifier accepted since reset
    parseCall,        \* x402: the last parseFacilitatorProof call, input and result
    processedSet,     \* scheduler: the keys of the payouts it has completed
    handlers,         \* scheduler: the handleSalaryDueEvent calls in progress
    flows,            \* history: key -> payout flows the scheduler completed
    processedWebhooks, \* webhook backend: the webhook IDs it has processed
    processedPayments, \* webhook backend: the payment keys it has recorded
    webhooks,         \* webhook backend: the POST /salary/webhook requests in progress
    verifyCalls,      \* local Verifier: the verify calls waiting in their delay
    returnedTrue,     \* history: rawHex -> verify calls that returned true
    webhookLog,       \* history: webhook ID -> recordPayment transactions sent, success answered
    last              \* the last call: its name, arguments and outcome

scheduleVars == <<employees, periodProcessed, payrollVault, scheduleOwner>>
vaultVars == <<vaultMode, vaultEmployees, paid, periodBalances, totalBalance,
               salarySchedule, paymentVerifier, tokenBalance, released, settled>>
verifierVars == <<proofConsumed, isVerified>>
backendVars == <<processedPayouts, verifiedProofs, requests, orchestrated>>
localVars == <<proofSeen, localProcessed, registered>>
codecVars == <<parseCall>>
schedulerVars == <<processedSet, handlers, flows>>
webhookVars == <<processedWebhooks, processedPayments, webhooks, webhookLog>>
verifyVars == <<verifyCalls, returnedTrue>>
peripheralVars == <<codecVars, schedulerVars, webhookVars, verifyVars>>
offChainVars == <<backendVars, localVars, peripheralVars>>
vars == <<scheduleVars, vaultVars, verifierVars, offChainVars, last>>

NoEmployee == [salary |-> 0, cadence |-> Minute, lastPaidTimestamp |-> 0, exists |-> FALSE]

(* A call and its outcome: the operation, the employee and period it names, *)
(* its amount or timestamp argument (0 when it has none), and "ok" or the  *)
(* revert reason; `inner` is the outcome of a call made back into the      *)
(* contract while this one was executing ("none" when there was none),     *)
(* `seen` what the vault's views returned to a reader during the call.     *)
NoViews == [isPaid |-> FALSE, periodBalance |-> 0, totalBalance |-> 0]

CallWith(op, emp, pid, arg, res) ==
    [op |-> op, emp |-> emp, pid |-> pid, arg |-> arg, res |-> res, inner |-> "none",
     seen |-> NoViews]

Call(op, emp, pid, res) == CallWith(op, emp, pid, 0, res)

(***************************************************************************)
(* Cadence engine.                                                         *)
(***************************************************************************)
(* Variant: the Hourly cadence given the duration of a minute. *)
cadenceDurationHourAsMinute(c) ==
    IF c = Minute THEN MINUTE
    ELSE IF c = Hourly THEN MINUTE
    ELSE IF c = Biweekly THEN BIWEEK
    ELSE THIRTY_DAY

cadenceDuration(c) ==
    IF c = Minute THEN MINUTE
    ELSE IF c = Hourly THEN HOUR
    ELSE IF c = Biweekly THEN BIWEEK
    ELSE THIRTY_DAY

isPeriodAligned(c, periodId) ==
    LET d == cadenceDuration(c) IN (periodId % d) = 0

(* Variant: the processed flag looked at before the alignment. *)
isDueProcessedFirst(_employee, periodId) ==
    LET e == employees[_employee] IN
    IF ~e.exists THEN <<FALSE, "not-assigned">>
    ELSE IF periodId \in periodProcessed[_employee] THEN <<FALSE, "already-processed">>
    ELSE IF ~isPeriodAligned(e.cadence, periodId) THEN <<FALSE, "period-misaligned">>
    ELSE IF periodId <= e.lastPaidTimestamp THEN <<FALSE, "period-not-later-than-last-paid">>
    ELSE <<TRUE, "">>

(* Variant: the processed flag not looked at. *)
isDueNoProcessedCheck(_employee, periodId) ==
    LET e == employees[_employee] IN
    IF ~e.exists THEN <<FALSE, "not-assigned">>
    ELSE IF ~isPeriodAligned(e.cadence, periodId) THEN <<FALSE, "period-misaligned">>
    ELSE IF periodId <= e.lastPaidTimestamp THEN <<FALSE, "period-not-later-than-last-paid">>
    ELSE <<TRUE, "">>

(***************************************************************************)
(* SalarySchedule.isDue: <<ok, reason>>.                                   *)
(***************************************************************************)
isDue(_employee, periodId) ==
    LET e == employees[_employee] IN
    IF ~e.exists THEN <<FALSE, "not-assigned">>
    ELSE IF ~isPeriodAligned(e.cadence, periodId) THEN <<FALSE, "period-misaligned">>
    ELSE IF periodId \in periodProcessed[_employee] THEN <<FALSE, "already-processed">>
    ELSE IF periodId <= e.lastPaidTimestamp THEN <<FALSE, "period-not-later-than-last-paid">>
    ELSE <<TRUE, "">>

(***************************************************************************)
(* onlyOwner of the schedule: the reason a call by `sender` is refused.    *)
(***************************************************************************)
scheduleOnlyOwner(sender) ==
    IF sender = scheduleOwner THEN "ok" ELSE "unauthorized"

(***************************************************************************)
(* SalarySchedule.assignEmployee, as a call by `sender`: its outcome and   *)
(* the employees mapping after it.                                         *)
(***************************************************************************)
(* Variant: assignEmployee without its salary requirement. *)
assignEmployeeResultAnySalary(sender, _employee, _salary) ==
    IF scheduleOnlyOwner(sender) # "ok" THEN "unauthorized"
    ELSE IF _employee = ZeroAddress THEN "employee-zero"
    ELSE "ok"

assignEmployeeResult(sender, _employee, _salary) ==
    IF scheduleOnlyOwner(sender) # "ok" THEN "unauthorized"
    ELSE IF _employee = ZeroAddress THEN "employee-zero"
    ELSE IF ~(_salary > 0) THEN "salary-zero"
    ELSE "ok"

(* Variant: every assignment writes the whole record. *)
assignEmployeeEffectResetsHistory(_employee, _salary, _cadence, _initialLastPaid) ==
    [employees EXCEPT ![_employee] =
        [salary |-> _salary, cadence |-> _cadence,
         lastPaidTimestamp |-> _initialLastPaid, exists |-> TRUE]]

assignEmployeeEffect(_employee, _salary, _cadence, _initialLastPaid) ==
    IF ~employees[_employee].exists
    THEN [employees EXCEPT ![_employee] =
            [salary |-> _salary, cadence |-> _cadence,
             lastPaidTimestamp |-> _initialLastPaid, exists |-> TRUE]]
    ELSE [employees EXCEPT ![_employee].salary = _salary,
                           ![_employee].cadence = _cadence]

assignEmployee(_employee, _salary, _cadence, _initialLastPaid) ==
    LET r == assignEmployeeResult("admin", _employee, _salary) IN
    /\ employees' = IF r = "ok"
                    THEN assignEmployeeEffect(_employee, _salary, _cadence, _initialLastPaid)
                    ELSE employees
    /\ last' = CallWith("assignEmployee", _employee, 0, _initialLastPaid, r)
    /\ UNCHANGED <<offChainVars, periodProcessed, payrollVault, scheduleOwner,
                   vaultVars, verifierVars>>

(***************************************************************************)
(* SalarySchedule.removeEmployee.                                          *)
(***************************************************************************)
removeEmployeeResult(_employee) ==
    IF scheduleOnlyOwner("admin") # "ok" THEN "unauthorized"
    ELSE IF ~employees[_employee].exists THEN "not-assigned"
    ELSE "ok"

(* Variant: the removal clears the employee's processed flags too. *)
removeEmployeeClearsFlags(_employee) ==
    LET r == removeEmployeeResult(_employee) IN
    /\ employees' = IF r = "ok" THEN [employees EXCEPT ![_employee] = NoEmployee]
                    ELSE employees
    /\ periodProcessed' = IF r = "ok" THEN [periodProcessed EXCEPT ![_employee] = {}]
                          ELSE periodProcessed
    /\ last' = Call("removeEmployee", _employee, 0, r)
    /\ UNCHANGED <<offChainVars, payrollVault, scheduleOwner, vaultVars, verifierVars>>

removeEmployee(_employee) ==
    LET r == removeEmployeeResult(_employee) IN
    /\ employees' = IF r = "ok" THEN [employees EXCEPT ![_employee] = NoEmployee]
                    ELSE employees
    /\ last' = Call("removeEmployee", _employee, 0, r)
    /\ UNCHANGED <<offChainVars, periodProcessed, payrollVault, scheduleOwner,
                   vaultVars, verifierVars>>

(***************************************************************************)
(* SalarySchedule.setPayrollVault: the vault, or another contract that     *)
(* implements IPayrollVault.                                               *)
(***************************************************************************)
setPayrollVault(_vault) ==
    LET r == IF scheduleOnlyOwner("admin") # "ok" THEN "unauthorized"
             ELSE IF _vault = "zero" THEN "vault-zero" ELSE "ok" IN
    /\ payrollVault' = IF r = "ok" THEN _vault ELSE payrollVault
    /\ last' = Call("setPayrollVault", ZeroAddress, 0, r)
    /\ UNCHANGED <<offChainVars, employees, periodProcessed, scheduleOwner,
                   vaultVars, verifierVars>>

(***************************************************************************)
(* Ownable.transferOwnership of the schedule to the vault contract, which  *)
(* lets the vault call the schedule's onlyOwner functions.                 *)
(***************************************************************************)
transferOwnership(newOwner) ==
    LET r == scheduleOnlyOwner("admin") IN
    /\ scheduleOwner' = IF r = "ok" THEN newOwner ELSE scheduleOwner
    /\ last' = Call("transferOwnership", ZeroAddress, 0, r)
    /\ UNCHANGED <<offChainVars, employees, periodProcessed, payrollVault,
                   vaultVars, verifierVars>>

(***************************************************************************)
(* SalarySchedule.setLastPaidTimestamp.                                    *)
(***************************************************************************)
setLastPaidTimestamp(_employee, _ts) ==
    LET r == IF scheduleOnlyOwner("admin") # "ok" THEN "unauthorized"
             ELSE IF ~employees[_employee].exists THEN "not-assigned" ELSE "ok" IN
    /\ employees' = IF r = "ok"
                    THEN [employees EXCEPT ![_employee].lastPaidTimestamp = _ts]
                    ELSE employees
    /\ last' = CallWith("setLastPaidTimestamp", _employee, 0, _ts, r)
    /\ UNCHANGED <<offChainVars, periodProcessed, payrollVault, scheduleOwner,
                   vaultVars, verifierVars>>

(***************************************************************************)
(* SalarySchedule.triggerSalaryDue.  The callback onSalaryDue is a plain   *)
(* external call: when it reverts, the whole transaction reverts.  Neither *)
(* PayrollVault contract implements onSalaryDue, so the call to the vault  *)
(* reverts.  Another IPayrollVault accepts, reverts, or re-enters: it      *)
(* calls triggerSalaryDue for the same pair, catches the failure and       *)
(* returns.                                                                *)
(***************************************************************************)
Callbacks == {"accepts", "reverts", "reenters"}

(* The modifiers run in the order written: nonReentrant, then onlyOwner.   *)
(* A call entered while triggerSalaryDue is executing stops at the first.  *)
reentrantTriggerResult(_employee, periodId) == "reentrant-call"

triggerSalaryDueResult(_employee, periodId, callback) ==
    LET d == isDue(_employee, periodId) IN
    IF scheduleOnlyOwner("admin") # "ok" THEN "unauthorized"
    ELSE IF ~d[1] THEN d[2]
    ELSE IF payrollVault = "vault" THEN "callback-reverted"
    ELSE IF payrollVault = "other" /\ callback = "reverts" THEN "callback-reverted"
    ELSE "ok"

triggerSalaryDue(_employee, periodId, callback) ==
    LET r == triggerSalaryDueResult(_employee, periodId, callback)
        reentered == r = "ok" /\ payrollVault = "other" /\ callback = "reenters" IN
    /\ periodProcessed' =
          IF r = "ok"
          THEN [periodProcessed EXCEPT ![_employee] = @ \cup {periodId}]
          ELSE periodProcessed
    /\ last' = [Call("triggerSalaryDue", _employee, periodId, r) EXCEPT
                   !.inner = IF reentered
                             THEN reentrantTriggerResult(_employee, periodId)
                             ELSE "none"]
    /\ UNCHANGED <<offChainVars, employees, payrollVault, scheduleOwner,
                   vaultVars, verifierVars>>

(* Variant: a timestamp equal to the recorded one accepted. *)
confirmPaidResultNotStrict(sender, _employee, periodId, paidTimestamp) ==
    IF scheduleOnlyOwner(sender) # "ok" THEN "unauthorized"
    ELSE IF ~employees[_employee].exists THEN "not-assigned"
    ELSE IF periodId \notin periodProcessed[_employee] THEN "period-not-processed"
    ELSE IF ~(paidTimestamp >= employees[_employee].lastPaidTimestamp) THEN "ts-not-later"
    ELSE "ok"

(***************************************************************************)
(* SalarySchedule.confirmPaid, as a call by `sender`.                      *)
(***************************************************************************)
confirmPaidResult(sender, _employee, periodId, paidTimestamp) ==
    IF scheduleOnlyOwner(sender) # "ok" THEN "unauthorized"
    ELSE IF ~employees[_employee].exists THEN "not-assigned"
    ELSE IF periodId \notin periodProcessed[_employee] THEN "period-not-processed"
    ELSE IF ~(paidTimestamp > employees[_employee].lastPaidTimestamp) THEN "ts-not-later"
    ELSE "ok"

(* Variant: the timestamp written whether or not the checks pass. *)
confirmPaidEffectUnchecked(sender, _employee, periodId, paidTimestamp) ==
    [employees EXCEPT ![_employee].lastPaidTimestamp = paidTimestamp]

confirmPaidEffect(sender, _employee, periodId, paidTimestamp) ==
    IF confirmPaidResult(sender, _employee, periodId, paidTimestamp) = "ok"
    THEN [employees EXCEPT ![_employee].lastPaidTimestamp = paidTimestamp]
    ELSE employees

confirmPaid(_employee, periodId, paidTimestamp) ==
    /\ employees' = confirmPaidEffect("admin", _employee, periodId, paidTimestamp)
    /\ last' = CallWith("confirmPaid", _employee, periodId, paidTimestamp,
                    confirmPaidResult("admin", _employee, periodId, paidTimestamp))
    /\ UNCHANGED <<offChainVars, periodProcessed, payrollVault, scheduleOwner,
                   vaultVars, verifierVars>>

(***************************************************************************)
(* SalarySchedule.adminClearProcessed.                                     *)
(***************************************************************************)
adminClearProcessed(_employee, periodId) ==
    LET r == scheduleOnlyOwner("admin") IN
    /\ periodProcessed' =
          IF r = "ok"
          THEN [periodProcessed EXCEPT ![_employee] = @ \ {periodId}]
          ELSE periodProcessed
    /\ last' = Call("adminClearProcessed", _employee, periodId, r)
    /\ UNCHANGED <<offChainVars, employees, payrollVault, scheduleOwner,
                   vaultVars, verifierVars>>

(* Variant: the current period returned whatever the last paid time. *)
nextExpectedPeriodValueFromNow(_employee, now) ==
    LET e == employees[_employee]
        d == cadenceDuration(e.cadence) IN
    (now \div d) * d

(* Variant: the candidate returned without aligning it. *)
nextExpectedPeriodValueUnaligned(_employee, now) ==
    LET e == employees[_employee]
        d == cadenceDuration(e.cadence) IN
    IF e.lastPaidTimestamp = 0
    THEN (now \div d) * d
    ELSE e.lastPaidTimestamp + d

(***************************************************************************)
(* SalarySchedule.nextExpectedPeriod, a view: the value it returns for an  *)
(* assigned employee at block.timestamp `now`, and the call.               *)
(***************************************************************************)
nextExpectedPeriodValue(_employee, now) ==
    LET e == employees[_employee]
        d == cadenceDuration(e.cadence) IN
    IF e.lastPaidTimestamp = 0
    THEN (now \div d) * d
    ELSE ((e.lastPaidTimestamp + d) \div d) * d

nextExpectedPeriod(_employee, now) ==
    LET r == IF ~employees[_employee].exists THEN "not-assigned" ELSE "ok" IN
    /\ last' = CallWith("nextExpectedPeriod", _employee,
                    IF r = "ok" THEN nextExpectedPeriodValue(_employee, now) ELSE 0,
                    now, r)
    /\ UNCHANGED <<offChainVars, scheduleVars, vaultVars, verifierVars>>

(* Variant: the signal marks the period processed, as triggerSalaryDue does. *)
adminEmitSalaryDueMarksProcessed(_employee, periodId) ==
    LET r == IF scheduleOnlyOwner("admin") # "ok" THEN "unauthorized"
             ELSE IF ~employees[_employee].exists THEN "not-assigned" ELSE "ok" IN
    /\ periodProcessed' =
          IF r = "ok"
          THEN [periodProcessed EXCEPT ![_employee] = @ \cup {periodId}]
          ELSE periodProcessed
    /\ last' = Call("adminEmitSalaryDue", _employee, periodId, r)
    /\ UNCHANGED <<offChainVars, employees, payrollVault, scheduleOwner,
                   vaultVars, verifierVars>>

(***************************************************************************)
(* SalarySchedule.adminEmitSalaryDue: emits SalaryDue and writes nothing.  *)
(***************************************************************************)
adminEmitSalaryDue(_employee, periodId) ==
    LET r == IF scheduleOnlyOwner("admin") # "ok" THEN "unauthorized"
             ELSE IF ~employees[_employee].exists THEN "not-assigned" ELSE "ok" IN
    /\ last' = Call("adminEmitSalaryDue", _employee, periodId, r)
    /\ UNCHANGED <<offChainVars, scheduleVars, vaultVars, verifierVars>>


(***************************************************************************)
(* Facilitator proofs: raw bytes, employee (20) | periodId (32, big-endian)*)
(* | amount (32, big-endian) | optional extra bytes.                      *)
(***************************************************************************)
ADDRESS_BYTES == 20
WORD_BYTES == 32
MIN_PROOF_BYTES == 84

Zeros(n) == [i \in 1 .. n |-> 0]

(* The 20 bytes of an address. *)
addressBytes(a) ==
    IF a = "e1" THEN Zeros(ADDRESS_BYTES - 1) \o <<1>>
    ELSE IF a = "e2" THEN Zeros(ADDRESS_BYTES - 1) \o <<2>>
    ELSE Zeros(ADDRESS_BYTES)

(* "0x" + hex of 20 bytes, as an address; bytes of no known wallet stay raw. *)
addressOfBytes(b) ==
    IF \E a \in Addresses : addressBytes(a) = b
    THEN CHOOSE a \in Addresses : addressBytes(a) = b
    ELSE "0x?"

RECURSIVE minimalBytes(_)
minimalBytes(value) ==
    IF value < 256 THEN <<value>>
    ELSE Append(minimalBytes(value \div 256), value % 256)

(* x402.bigIntToBuffer: big-endian, left-padded with zeros to `length`.  A *)
(* value wider than `length` is refused there; none is built here.        *)
bigIntToBuffer(value, length) ==
    LET bytes == minimalBytes(value) IN
    IF Len(bytes) = length THEN bytes
    ELSE Zeros(length - Len(bytes)) \o bytes

RECURSIVE bufferToBigInt(_)
bufferToBigInt(buf) ==
    IF Len(buf) = 0 THEN 0
    ELSE bufferToBigInt(SubSeq(buf, 1, Len(buf) - 1)) * 256 + buf[Len(buf)]

(* x402.buildFacilitatorProofHex *)
buildFacilitatorProofHex(employee, periodId, amount) ==
    addressBytes(employee) \o bigIntToBuffer(periodId, WORD_BYTES)
        \o bigIntToBuffer(amount, WORD_BYTES)

(***************************************************************************)
(* PaymentVerifier (on chain).  verifyPayment decodes the fixed layout,    *)
(* refuses a proof that is too short or has a zero field, refuses raw      *)
(* bytes it has consumed before, and otherwise consumes the proof and      *)
(* records isVerified[employee][periodId].                                 *)
(***************************************************************************)
decodeProof(raw) ==
    [employee |-> addressOfBytes(SubSeq(raw, 1, ADDRESS_BYTES)),
     periodId |-> bufferToBigInt(SubSeq(raw, ADDRESS_BYTES + 1, ADDRESS_BYTES + WORD_BYTES)),
     amount   |-> bufferToBigInt(SubSeq(raw, ADDRESS_BYTES + WORD_BYTES + 1, MIN_PROOF_BYTES))]

(* The raw proofs submitted, and the decoding of those long enough to be   *)
(* decoded, tabulated once (@@ yields an explicit function).               *)
ProofInputs ==
    {buildFacilitatorProofHex(e, p, a) : e \in {"e1"}, p \in {0, THIRTY_DAY}, a \in {1, 2}}
        \cup {Zeros(MIN_PROOF_BYTES - 1)}

Decoded ==
    [raw \in {r \in ProofInputs : Len(r) >= MIN_PROOF_BYTES} |-> decodeProof(raw)] @@ <<>>

verifyPaymentResult(raw) ==
    IF Len(raw) < MIN_PROOF_BYTES THEN "malformed-proof"
    ELSE IF \/ Decoded[raw].employee = ZeroAddress
            \/ Decoded[raw].periodId = 0
            \/ Decoded[raw].amount = 0 THEN "malformed-proof"
    ELSE IF raw \in proofConsumed THEN "proof-already-consumed"
    ELSE "ok"

(* The transaction on the chain, whoever sends it. *)
verifyPaymentTx(raw) ==
    LET r == verifyPaymentResult(raw) IN
    /\ proofConsumed' = IF r = "ok" THEN proofConsumed \cup {raw} ELSE proofConsumed
    /\ isVerified' = IF r = "ok"
                     THEN isVerified \cup {<<Decoded[raw].employee, Decoded[raw].periodId>>}
                     ELSE isVerified
    /\ UNCHANGED <<scheduleVars, vaultVars>>

verifyPayment(raw) ==
    /\ verifyPaymentTx(raw)
    /\ last' = IF Len(raw) < MIN_PROOF_BYTES
               THEN Call("verifyPayment", ZeroAddress, 0, verifyPaymentResult(raw))
               ELSE Call("verifyPayment", Decoded[raw].employee, Decoded[raw].periodId,
                         verifyPaymentResult(raw))
    /\ UNCHANGED offChainVars

(***************************************************************************)
(* PayrollVault administration (release-mode vault).                       *)
(***************************************************************************)
NoEmployeeInfo == [salary |-> 0, cadence |-> 0, exists |-> FALSE]

setSalarySchedule(_schedule) ==
    LET r == IF _schedule = "zero" THEN "schedule-zero" ELSE "ok" IN
    /\ salarySchedule' = IF r = "ok" THEN TRUE ELSE salarySchedule
    /\ last' = Call("setSalarySchedule", ZeroAddress, 0, r)
    /\ UNCHANGED <<offChainVars, scheduleVars, verifierVars, vaultMode, vaultEmployees, paid,
                   periodBalances, totalBalance, paymentVerifier, tokenBalance,
                   released, settled>>

setPaymentVerifier(_verifier) ==
    LET r == IF _verifier = "zero" THEN "verifier-zero" ELSE "ok" IN
    /\ vaultMode = "release"
    /\ paymentVerifier' = IF r = "ok" THEN TRUE ELSE paymentVerifier
    /\ last' = Call("setPaymentVerifier", ZeroAddress, 0, r)
    /\ UNCHANGED <<offChainVars, scheduleVars, verifierVars, vaultMode, vaultEmployees, paid,
                   periodBalances, totalBalance, salarySchedule, tokenBalance,
                   released, settled>>

(* PayrollVault.Cadence has three members; a uint8 above Monthly is refused. *)
VAULT_MONTHLY == 2

vaultAssignEmployeeResult(_employee, _salary, cadence) ==
    IF _employee = ZeroAddress THEN "employee-zero"
    ELSE IF ~(_salary > 0) THEN "salary-zero"
    ELSE IF ~(cadence <= VAULT_MONTHLY) THEN "invalid-cadence"
    ELSE "ok"

(* The mirror is overwritten; then, best effort, the same arguments go to  *)
(* SalarySchedule.assignEmployee (the uint8 cadence code unchanged), and a *)
(* revert of that call is swallowed.                                       *)
vaultAssignEmployee(_employee, _salary, cadence, initialLastPaid) ==
    LET r == vaultAssignEmployeeResult(_employee, _salary, cadence)
        synced == /\ r = "ok"
                  /\ salarySchedule
                  /\ assignEmployeeResult("vault", _employee, _salary) = "ok" IN
    /\ vaultMode = "release"
    /\ vaultEmployees' =
          IF r = "ok"
          THEN [vaultEmployees EXCEPT ![_employee] =
                  [salary |-> _salary, cadence |-> cadence, exists |-> TRUE]]
          ELSE vaultEmployees
    /\ employees' = IF synced
                    THEN assignEmployeeEffect(_employee, _salary, cadence, initialLastPaid)
                    ELSE employees
    /\ last' = Call("vaultAssignEmployee", _employee, 0, r)
    /\ UNCHANGED <<offChainVars, periodProcessed, payrollVault, scheduleOwner, verifierVars,
                   vaultMode, paid, periodBalances, totalBalance, salarySchedule,
                   paymentVerifier, tokenBalance, released, settled>>

(***************************************************************************)
(* Deposits and withdrawals.                                               *)
(***************************************************************************)
TokensHeld == tokenBalance["vault"] + tokenBalance["e1"] + tokenBalance["e2"]

(* Variant: a deposit credited to totalBalance and to no period. *)
depositPayrollTotalOnly(periodId, amount, approved) ==
    LET r == IF ~(amount > 0) THEN "amount-zero"
             ELSE IF ~approved THEN "transfer-failed"
             ELSE "ok" IN
    /\ TokensHeld + amount <= MaxFunds
    /\ totalBalance + amount <= MaxFunds
    /\ periodBalances[periodId] + amount <= MaxFunds
    /\ tokenBalance' = IF r = "ok" THEN [tokenBalance EXCEPT !["vault"] = @ + amount]
                       ELSE tokenBalance
    /\ periodBalances' = periodBalances
    /\ totalBalance' = IF r = "ok" THEN totalBalance + amount ELSE totalBalance
    /\ last' = CallWith("depositPayroll", ZeroAddress, periodId, amount, r)
    /\ UNCHANGED <<offChainVars, scheduleVars, verifierVars, vaultMode, vaultEmployees, paid,
                   salarySchedule, paymentVerifier, released, settled>>

(* safeTransferFrom pulls the amount from the owner, who must have approved it. *)
depositPayrollResult(amount, approved) ==
    IF ~(amount > 0) THEN "amount-zero"
    ELSE IF ~approved THEN "transfer-failed"
    ELSE "ok"

depositPayroll(periodId, amount, approved) ==
    LET r == depositPayrollResult(amount, approved) IN
    /\ TokensHeld + amount <= MaxFunds
    /\ totalBalance + amount <= MaxFunds
    /\ periodBalances[periodId] + amount <= MaxFunds
    /\ tokenBalance' = IF r = "ok" THEN [tokenBalance EXCEPT !["vault"] = @ + amount]
                       ELSE tokenBalance
    /\ periodBalances' = IF r = "ok" THEN [periodBalances EXCEPT ![periodId] = @ + amount]
                         ELSE periodBalances
    /\ totalBalance' = IF r = "ok" THEN totalBalance + amount ELSE totalBalance
    /\ last' = CallWith("depositPayroll", ZeroAddress, periodId, amount, r)
    /\ UNCHANGED <<offChainVars, scheduleVars, verifierVars, vaultMode, vaultEmployees, paid,
                   salarySchedule, paymentVerifier, released, settled>>

(* The release-mode vault computes the reserved total with _totalReserved, *)
(* which reverts; the record-mode vault compares with totalBalance only.   *)
withdrawExcessResult(to, amount) ==
    IF to = ZeroAddress THEN "to-zero"
    ELSE IF vaultMode = "release" THEN "not-implemented-totalReserved"
    ELSE IF ~(amount <= totalBalance) THEN "insufficient-balance"
    ELSE IF tokenBalance["vault"] < amount THEN "transfer-failed"
    ELSE "ok"

withdrawExcess(to, amount) ==
    LET r == withdrawExcessResult(to, amount) IN
    /\ totalBalance' = IF r = "ok" THEN totalBalance - amount ELSE totalBalance
    /\ tokenBalance' = IF r = "ok" THEN [tokenBalance EXCEPT !["vault"] = @ - amount]
                       ELSE tokenBalance
    /\ last' = CallWith("withdrawExcess", to, 0, amount, r)
    /\ UNCHANGED <<offChainVars, scheduleVars, verifierVars, vaultMode, vaultEmployees, paid,
                   periodBalances, salarySchedule, paymentVerifier, released, settled>>

rescueTokensResult(to, amount) ==
    IF to = ZeroAddress THEN "to-zero"
    ELSE IF tokenBalance["vault"] < amount THEN "transfer-failed"
    ELSE "ok"

rescueTokens(to, amount) ==
    LET r == rescueTokensResult(to, amount) IN
    /\ tokenBalance' = IF r = "ok" THEN [tokenBalance EXCEPT !["vault"] = @ - amount]
                       ELSE tokenBalance
    /\ last' = CallWith("rescueTokens", to, 0, amount, r)
    /\ UNCHANGED <<offChainVars, scheduleVars, verifierVars, vaultMode, vaultEmployees, paid,
                   periodBalances, totalBalance, salarySchedule, paymentVerifier,
                   released, settled>>

(* Variant: no look at the PaidFlag. *)
releaseSalaryResultNoPaidCheck(employee, periodId) ==
    LET e == vaultEmployees[employee]
        amount == e.salary
        due == isDue(employee, periodId) IN
    IF ~e.exists THEN "employee-not-assigned"
    ELSE IF ~salarySchedule THEN "schedule-not-set"
    ELSE IF ~due[1] THEN due[2]
    ELSE IF ~paymentVerifier THEN "verifier-not-set"
    ELSE IF <<employee, periodId>> \notin isVerified THEN "payment-not-verified"
    ELSE IF ~(periodBalances[periodId] >= amount) THEN "insufficient-period-funds"
    ELSE IF totalBalance < amount THEN "panic"
    ELSE IF tokenBalance["vault"] < amount THEN "transfer-failed"
    ELSE "ok"

(* Variant: no comparison with the period balance. *)
releaseSalaryResultNoFundsCheck(employee, periodId) ==
    LET e == vaultEmployees[employee]
        amount == e.salary
        due == isDue(employee, periodId) IN
    IF ~e.exists THEN "employee-not-assigned"
    ELSE IF periodId \in paid[employee] THEN "already-paid"
    ELSE IF ~salarySchedule THEN "schedule-not-set"
    ELSE IF ~due[1] THEN due[2]
    ELSE IF ~paymentVerifier THEN "verifier-not-set"
    ELSE IF <<employee, periodId>> \notin isVerified THEN "payment-not-verified"
    ELSE IF totalBalance < amount THEN "panic"
    ELSE IF tokenBalance["vault"] < amount THEN "transfer-failed"
    ELSE "ok"

(* Variant: no question to the Proof Verifier. *)
releaseSalaryResultNoProofCheck(employee, periodId) ==
    LET e == vaultEmployees[employee]
        amount == e.salary
        due == isDue(employee, periodId) IN
    IF ~e.exists THEN "employee-not-assigned"
    ELSE IF periodId \in paid[employee] THEN "already-paid"
    ELSE IF ~salarySchedule THEN "schedule-not-set"
    ELSE IF ~due[1] THEN due[2]
    ELSE IF ~paymentVerifier THEN "verifier-not-set"
    ELSE IF ~(periodBalances[periodId] >= amount) THEN "insufficient-period-funds"
    ELSE IF totalBalance < amount THEN "panic"
    ELSE IF tokenBalance["vault"] < amount THEN "transfer-failed"
    ELSE "ok"

(* Variant: the funds of the period examined before the proof. *)
releaseSalaryResultFundsFirst(employee, periodId) ==
    LET e == vaultEmployees[employee]
        amount == e.salary
        due == isDue(employee, periodId) IN
    IF ~e.exists THEN "employee-not-assigned"
    ELSE IF periodId \in paid[employee] THEN "already-paid"
    ELSE IF ~salarySchedule THEN "schedule-not-set"
    ELSE IF ~due[1] THEN due[2]
    ELSE IF ~(periodBalances[periodId] >= amount) THEN "insufficient-period-funds"
    ELSE IF ~paymentVerifier THEN "verifier-not-set"
    ELSE IF <<employee, periodId>> \notin isVerified THEN "payment-not-verified"
    ELSE IF totalBalance < amount THEN "panic"
    ELSE IF tokenBalance["vault"] < amount THEN "transfer-failed"
    ELSE "ok"

(* Variant: a period balance equal to the salary refused. *)
releaseSalaryResultStrictFunds(employee, periodId) ==
    LET e == vaultEmployees[employee]
        amount == e.salary
        due == isDue(employee, periodId) IN
    IF ~e.exists THEN "employee-not-assigned"
    ELSE IF periodId \in paid[employee] THEN "already-paid"
    ELSE IF ~salarySchedule THEN "schedule-not-set"
    ELSE IF ~due[1] THEN due[2]
    ELSE IF ~paymentVerifier THEN "verifier-not-set"
    ELSE IF <<employee, periodId>> \notin isVerified THEN "payment-not-verified"
    ELSE IF ~(periodBalances[periodId] > amount) THEN "insufficient-period-funds"
    ELSE IF totalBalance < amount THEN "panic"
    ELSE IF tokenBalance["vault"] < amount THEN "transfer-failed"
    ELSE "ok"

(***************************************************************************)
(* PayrollVault.releaseSalary (release-mode vault): the revert reason of   *)
(* the first failing check, or "ok".  After the requires, the checked      *)
(* subtraction of totalBalance and the token transfer can still revert.    *)
(***************************************************************************)
releaseSalaryResult(employee, periodId) ==
    LET e == vaultEmployees[employee]
        amount == e.salary
        due == isDue(employee, periodId) IN
    IF ~e.exists THEN "employee-not-assigned"
    ELSE IF periodId \in paid[employee] THEN "already-paid"
    ELSE IF ~salarySchedule THEN "schedule-not-set"
    ELSE IF ~due[1] THEN due[2]
    ELSE IF ~paymentVerifier THEN "verifier-not-set"
    ELSE IF <<employee, periodId>> \notin isVerified THEN "payment-not-verified"
    ELSE IF ~(periodBalances[periodId] >= amount) THEN "insufficient-period-funds"
    ELSE IF totalBalance < amount THEN "panic"
    ELSE IF tokenBalance["vault"] < amount THEN "transfer-failed"
    ELSE "ok"

(* Variant: the amount left in totalBalance by a release. *)
releaseSalaryTxKeepsTotal(employee, periodId, now) ==
    LET r == releaseSalaryResult(employee, periodId)
        amount == vaultEmployees[employee].salary IN
    /\ IF r = "ok"
       THEN /\ paid' = [paid EXCEPT ![employee] = @ \cup {periodId}]
            /\ periodBalances' = [periodBalances EXCEPT ![periodId] = @ - amount]
            /\ totalBalance' = totalBalance
            /\ tokenBalance' = [tokenBalance EXCEPT !["vault"] = @ - amount,
                                                    ![employee] = @ + amount]
            /\ employees' = confirmPaidEffect("vault", employee, periodId, now)
            /\ released' = released \cup {<<employee, periodId>>}
            /\ settled' = settled \cup {<<employee, periodId>>}
       ELSE UNCHANGED <<paid, periodBalances, totalBalance, tokenBalance, employees,
                        released, settled>>
    /\ UNCHANGED <<periodProcessed, payrollVault, scheduleOwner, verifierVars,
                   vaultMode, vaultEmployees, salarySchedule, paymentVerifier>>

(* Variant: the PaidFlag not set by a release. *)
releaseSalaryTxPaidNotSet(employee, periodId, now) ==
    LET r == releaseSalaryResult(employee, periodId)
        amount == vaultEmployees[employee].salary IN
    /\ IF r = "ok"
       THEN /\ paid' = paid
            /\ periodBalances' = [periodBalances EXCEPT ![periodId] = @ - amount]
            /\ totalBalance' = totalBalance - amount
            /\ tokenBalance' = [tokenBalance EXCEPT !["vault"] = @ - amount,
                                                    ![employee] = @ + amount]
            /\ employees' = confirmPaidEffect("vault", employee, periodId, now)
            /\ released' = released \cup {<<employee, periodId>>}
            /\ settled' = settled \cup {<<employee, periodId>>}
       ELSE UNCHANGED <<paid, periodBalances, totalBalance, tokenBalance, employees,
                        released, settled>>
    /\ UNCHANGED <<periodProcessed, payrollVault, scheduleOwner, verifierVars,
                   vaultMode, vaultEmployees, salarySchedule, paymentVerifier>>

(* Variant: a revert of the closing confirmPaid reverts the release. *)
releaseSalaryTxConfirmPropagates(employee, periodId, now) ==
    LET r == IF confirmPaidResult("vault", employee, periodId, now) # "ok"
             THEN "confirm-failed"
             ELSE releaseSalaryResult(employee, periodId)
        amount == vaultEmployees[employee].salary IN
    /\ IF r = "ok"
       THEN /\ paid' = [paid EXCEPT ![employee] = @ \cup {periodId}]
            /\ periodBalances' = [periodBalances EXCEPT ![periodId] = @ - amount]
            /\ totalBalance' = totalBalance - amount
            /\ tokenBalance' = [tokenBalance EXCEPT !["vault"] = @ - amount,
                                                    ![employee] = @ + amount]
            /\ employees' = confirmPaidEffect("vault", employee, periodId, now)
            /\ released' = released \cup {<<employee, periodId>>}
            /\ settled' = settled \cup {<<employee, periodId>>}
       ELSE UNCHANGED <<paid, periodBalances, totalBalance, tokenBalance, employees,
                        released, settled>>
    /\ UNCHANGED <<periodProcessed, payrollVault, scheduleOwner, verifierVars,
                   vaultMode, vaultEmployees, salarySchedule, paymentVerifier>>

(* block.timestamp is `now`.  The closing confirmPaid is a call by the     *)
(* vault; its revert is swallowed.                                         *)
releaseSalaryTx(employee, periodId, now) ==
    LET r == releaseSalaryResult(employee, periodId)
        amount == vaultEmployees[employee].salary IN
    /\ IF r = "ok"
       THEN /\ paid' = [paid EXCEPT ![employee] = @ \cup {periodId}]
            /\ periodBalances' = [periodBalances EXCEPT ![periodId] = @ - amount]
            /\ totalBalance' = totalBalance - amount
            /\ tokenBalance' = [tokenBalance EXCEPT !["vault"] = @ - amount,
                                                    ![employee] = @ + amount]
            /\ employees' = confirmPaidEffect("vault", employee, periodId, now)
            /\ released' = released \cup {<<employee, periodId>>}
            /\ settled' = settled \cup {<<employee, periodId>>}
       ELSE UNCHANGED <<paid, periodBalances, totalBalance, tokenBalance, employees,
                        released, settled>>
    /\ UNCHANGED <<periodProcessed, payrollVault, scheduleOwner, verifierVars,
                   vaultMode, vaultEmployees, salarySchedule, paymentVerifier>>

(* Variant: the transfer made before the PaidFlag is written. *)
storageAtTransferPaidLate(employee, periodId) ==
    LET amount == vaultEmployees[employee].salary IN
    [isPaid |-> periodId \in paid[employee],
     periodBalance |-> periodBalances[periodId] - amount,
     totalBalance |-> totalBalance - amount]

(* What the vault's views isPaid(employee, periodId),                      *)
(* periodBalances(periodId) and totalBalance() return while                *)
(* token.safeTransfer executes: the three writes precede the transfer.     *)
storageAtTransfer(employee, periodId) ==
    LET amount == vaultEmployees[employee].salary IN
    [isPaid |-> periodId \in (paid[employee] \cup {periodId}),
     periodBalance |-> periodBalances[periodId] - amount,
     totalBalance |-> totalBalance - amount]

(* A releaseSalary by the owner while releaseSalary is executing is        *)
(* refused by the nonReentrant modifier, before any of its checks.         *)
reentrantReleaseResult(employee, periodId) == "reentrant-call"

(* What the token does with control during the transfer: nothing (the      *)
(* deployed ERC-20), or it reads the vault's views, or it has the owner    *)
(* call releaseSalary for the same pair, catches the failure and returns.  *)
TransferHooks == {"none", "reads", "releases"}

releaseSalary(employee, periodId, now, hook) ==
    LET r == releaseSalaryResult(employee, periodId) IN
    /\ vaultMode = "release"
    /\ releaseSalaryTx(employee, periodId, now)
    /\ last' = [Call("releaseSalary", employee, periodId, r) EXCEPT
                   !.inner = IF r # "ok" \/ hook = "none" THEN "none"
                             ELSE IF hook = "reads" THEN "views"
                             ELSE reentrantReleaseResult(employee, periodId),
                   !.seen = IF r = "ok" /\ hook = "reads"
                            THEN storageAtTransfer(employee, periodId)
                            ELSE NoViews]
    /\ UNCHANGED offChainVars

(* Variant: no question to the schedule. *)
recordPaymentResultNoDueCheck(employee, periodId, amount) ==
    LET due == isDue(employee, periodId) IN
    IF employee = ZeroAddress THEN "employee-zero"
    ELSE IF periodId \in paid[employee] THEN "already-paid"
    ELSE IF ~(periodBalances[periodId] >= amount) THEN "insufficient-period-funds"
    ELSE "ok"

(* Variant: the amount deducted from totalBalance as well. *)
recordPaymentDeductsTotal(employee, periodId, amount, now) ==
    LET due == isDue(employee, periodId)
        r == IF employee = ZeroAddress THEN "employee-zero"
             ELSE IF periodId \in paid[employee] THEN "already-paid"
             ELSE IF ~due[1] THEN due[2]
             ELSE IF ~(periodBalances[periodId] >= amount) THEN "insufficient-period-funds"
             ELSE "ok" IN
    /\ vaultMode = "record"
    /\ last' = CallWith("recordPayment", employee, periodId, amount, r)
    /\ IF r = "ok"
       THEN /\ paid' = [paid EXCEPT ![employee] = @ \cup {periodId}]
            /\ periodBalances' = [periodBalances EXCEPT ![periodId] = @ - amount]
            /\ totalBalance' = totalBalance - amount
            /\ employees' = confirmPaidEffect("vault", employee, periodId, now)
            /\ released' = released \cup {<<employee, periodId>>}
            /\ settled' = settled \cup {<<employee, periodId>>}
       ELSE UNCHANGED <<paid, periodBalances, totalBalance, employees, released, settled>>
    /\ UNCHANGED <<offChainVars, periodProcessed, payrollVault, scheduleOwner, verifierVars,
                   vaultMode, vaultEmployees, tokenBalance, salarySchedule, paymentVerifier>>

(***************************************************************************)
(* PayrollVault.recordPayment (record-mode vault).                         *)
(***************************************************************************)
recordPaymentResult(employee, periodId, amount) ==
    LET due == isDue(employee, periodId) IN
    IF employee = ZeroAddress THEN "employee-zero"
    ELSE IF periodId \in paid[employee] THEN "already-paid"
    ELSE IF ~due[1] THEN due[2]
    ELSE IF ~(periodBalances[periodId] >= amount) THEN "insufficient-period-funds"
    ELSE "ok"

recordPaymentTx(employee, periodId, amount, now) ==
    LET r == recordPaymentResult(employee, periodId, amount) IN
    /\ IF r = "ok"
       THEN /\ paid' = [paid EXCEPT ![employee] = @ \cup {periodId}]
            /\ periodBalances' = [periodBalances EXCEPT ![periodId] = @ - amount]
            /\ employees' = confirmPaidEffect("vault", employee, periodId, now)
            /\ released' = released \cup {<<employee, periodId>>}
            /\ settled' = settled \cup {<<employee, periodId>>}
       ELSE UNCHANGED <<paid, periodBalances, employees, released, settled>>
    /\ UNCHANGED <<periodProcessed, payrollVault, scheduleOwner, verifierVars,
                   vaultMode, vaultEmployees, totalBalance, tokenBalance,
                   salarySchedule, paymentVerifier>>

recordPayment(employee, periodId, amount, now) ==
    LET r == recordPaymentResult(employee, periodId, amount) IN
    /\ vaultMode = "record"
    /\ recordPaymentTx(employee, periodId, amount, now)
    /\ last' = CallWith("recordPayment", employee, periodId, amount, r)
    /\ UNCHANGED offChainVars

(***************************************************************************)
(* PayrollVault.adminClearPaid (both vaults).                              *)
(***************************************************************************)
adminClearPaid(employee, periodId) ==
    /\ paid' = [paid EXCEPT ![employee] = @ \ {periodId}]
    /\ settled' = settled \ {<<employee, periodId>>}
    /\ last' = Call("adminClearPaid", employee, periodId, "ok")
    /\ UNCHANGED <<offChainVars, scheduleVars, verifierVars, vaultMode, vaultEmployees,
                   periodBalances, totalBalance, salarySchedule, paymentVerifier,
                   tokenBalance, released>>

(***************************************************************************)
(* Text forms the backend receives.  An address is written checksummed or  *)
(* in lower case; hex text starts with 0x or 0X.  Both forms of a text     *)
(* denote the same address or bytes, and are different strings.            *)
(***************************************************************************)
AddressText(a, form) == [addr |-> a, form |-> form]

toLowerCase(text) == [text EXCEPT !.form = "lower"]

isAddress(text) == text.addr \in Employees

HexText(prefix, bytes) == [prefix |-> prefix, bytes |-> bytes]

NoHex == HexText("", <<>>)

getBytes(hex) == hex.bytes

RECURSIVE decimalString(_)
decimalString(n) ==
    IF n < 10 THEN <<n>> ELSE Append(decimalString(n \div 10), n % 10)

(* `${employee.toLowerCase()}:${periodId}` *)
payoutKey(employee, periodId) == <<toLowerCase(employee), decimalString(periodId)>>

(***************************************************************************)
(* Backend, POST /salary/verify.  A request runs from one await to the     *)
(* next in one step; requests in different slots interleave.  The response *)
(* is recorded in `last`; "pending" while the request is in progress.  A   *)
(* request in progress remembers (history) whether it is a retry: it       *)
(* arrived with no other request in progress and with a proof that an      *)
(* earlier request had registered on chain.                                *)
(***************************************************************************)
Slots == {1, 2}

Idle == [pc |-> "idle"]

Response(s, body, res) ==
    CallWith("POST /salary/verify", body.employee.addr, body.periodId, s, res)

(* Up to the first await: validation, the processedPayouts guard, and the  *)
(* choice of the txHash or the facilitatorProof path.                      *)
salaryVerifyEntry(body) ==
    IF ~isAddress(body.employee) THEN "invalid-employee"
    ELSE IF body.periodId = 0 THEN "missing-periodId"
    ELSE IF payoutKey(body.employee, body.periodId) \in processedPayouts
         THEN "already_processed"
    ELSE IF body.txHash # "none" THEN "receipt"
    ELSE IF body.facilitatorProof = NoHex THEN "missing-facilitatorProof-or-txHash"
    ELSE IF body.facilitatorProof \notin verifiedProofs THEN "sdk"
    ELSE "verify"

salaryVerify(s, body) ==
    LET e == salaryVerifyEntry(body) IN
    /\ requests[s] = Idle
    /\ requests' = IF e \in {"receipt", "sdk", "verify"}
                   THEN [requests EXCEPT ![s] =
                           [pc |-> e, body |-> body,
                            retry |-> /\ getBytes(body.facilitatorProof) \in proofConsumed
                                      /\ \A t \in Slots \ {s} : requests[t] = Idle]]
                   ELSE requests
    /\ last' = Response(s, body, IF e \in {"receipt", "sdk", "verify"} THEN "pending" ELSE e)
    /\ UNCHANGED <<scheduleVars, vaultVars, verifierVars, processedPayouts,
                   verifiedProofs, orchestrated, localVars, peripheralVars>>

(* provider.getTransactionReceipt(txHash) answered: no receipt, a failed   *)
(* transaction, or a successful one.                                       *)
receiptResult(txHash) ==
    IF txHash = "unknown" THEN "tx-not-found"
    ELSE IF txHash = "failed" THEN "tx-failed"
    ELSE "ok"

salaryVerifyReceipt(s) ==
    /\ requests[s].pc = "receipt"
    /\ LET body == requests[s].body
           r == receiptResult(body.txHash) IN
       /\ processedPayouts' =
             IF r = "ok"
             THEN processedPayouts \cup {payoutKey(body.employee, body.periodId)}
             ELSE processedPayouts
       /\ last' = Response(s, body, r)
    /\ requests' = [requests EXCEPT ![s] = Idle]
    /\ UNCHANGED <<scheduleVars, vaultVars, verifierVars, verifiedProofs,
                   orchestrated, localVars, peripheralVars>>

(* facilitator.verifyProof answered; its answer is logged and not used. *)
salaryVerifySdk(s) ==
    /\ requests[s].pc = "sdk"
    /\ verifiedProofs' = verifiedProofs \cup {requests[s].body.facilitatorProof}
    /\ requests' = [requests EXCEPT ![s].pc = "verify"]
    /\ last' = Response(s, requests[s].body, "pending")
    /\ UNCHANGED <<scheduleVars, vaultVars, verifierVars, processedPayouts,
                   orchestrated, localVars, peripheralVars>>

(* PaymentVerifier.verifyPayment mined or reverted (a revert is caught and *)
(* answered with internal_error).                                          *)
salaryVerifyPayment(s) ==
    /\ requests[s].pc = "verify"
    /\ LET body == requests[s].body
           r == verifyPaymentResult(getBytes(body.facilitatorProof)) IN
       /\ verifyPaymentTx(getBytes(body.facilitatorProof))
       /\ requests' = IF r = "ok" THEN [requests EXCEPT ![s].pc = "release"]
                      ELSE [requests EXCEPT ![s] = Idle]
       /\ last' = Response(s, body, IF r = "ok" THEN "pending" ELSE "internal_error")
    /\ UNCHANGED <<processedPayouts, verifiedProofs, orchestrated, localVars, peripheralVars>>

(* PayrollVault.releaseSalary mined or reverted.  The record-mode vault    *)
(* has no releaseSalary, so the call reverts there.  Only after the        *)
(* receipt is the payout key marked processed.                             *)
salaryVerifyReleaseResult(body) ==
    IF vaultMode = "release"
    THEN releaseSalaryResult(body.employee.addr, body.periodId)
    ELSE "no-such-function"

salaryVerifyRelease(s, now) ==
    /\ requests[s].pc = "release"
    /\ LET body == requests[s].body
           key == payoutKey(body.employee, body.periodId)
           r == salaryVerifyReleaseResult(body) IN
       /\ IF vaultMode = "release"
          THEN releaseSalaryTx(body.employee.addr, body.periodId, now)
          ELSE UNCHANGED <<scheduleVars, vaultVars, verifierVars>>
       /\ processedPayouts' = IF r = "ok" THEN processedPayouts \cup {key}
                              ELSE processedPayouts
       /\ orchestrated' = IF r = "ok" THEN [orchestrated EXCEPT ![key] = @ + 1]
                          ELSE orchestrated
       /\ last' = Response(s, body, IF r = "ok" THEN "ok" ELSE "internal_error")
    /\ requests' = [requests EXCEPT ![s] = Idle]
    /\ UNCHANGED <<verifiedProofs, localVars, peripheralVars>>

(***************************************************************************)
(* Local Verifier (backend/src/verifier.ts).  verify takes a raw hex       *)
(* string, or a parsed proof whose rawHex parseFacilitatorProof has        *)
(* written as "0x" + lower-case hex.  proofSeen holds rawHex strings.      *)
(***************************************************************************)
hexToBuffer(hex) == hex.bytes

toHex(bytes) == HexText("0x", bytes)

StringInput(rawHex) == [kind |-> "string", rawHex |-> rawHex]

ParsedInput(bytes) == [kind |-> "parsed", rawHex |-> toHex(bytes)]

(* null when the bytes are too short to hold the layout. *)
Null == [null |-> TRUE]

normalizeInput(input) ==
    LET buf == hexToBuffer(input.rawHex) IN
    IF Len(buf) < MIN_PROOF_BYTES THEN Null
    ELSE [rawHex |-> input.rawHex,
          employee |-> AddressText(Decoded[buf].employee,
                                   IF input.kind = "string" THEN "lower" ELSE "checksum"),
          periodId |-> Decoded[buf].periodId,
          amount |-> Decoded[buf].amount]

keyFor(employee, periodId) == <<toLowerCase(employee), decimalString(periodId)>>

verifyResult(input) ==
    LET n == normalizeInput(input) IN
    IF n = Null THEN FALSE
    ELSE IF n.employee.addr = ZeroAddress THEN FALSE
    ELSE IF n.periodId = 0 THEN FALSE
    ELSE IF n.amount = 0 THEN FALSE
    ELSE IF n.rawHex \in proofSeen THEN FALSE
    ELSE IF keyFor(n.employee, n.periodId) \in localProcessed THEN FALSE
    ELSE TRUE

verify(input, markProcessed) ==
    LET n == normalizeInput(input)
        r == verifyResult(input) IN
    /\ proofSeen' = IF r THEN proofSeen \cup {input.rawHex} ELSE proofSeen
    /\ localProcessed' = IF r /\ markProcessed
                         THEN localProcessed \cup {keyFor(n.employee, n.periodId)}
                         ELSE localProcessed
    /\ registered' = IF r THEN registered \cup {hexToBuffer(input.rawHex)} ELSE registered
    /\ last' = CallWith("Verifier.verify", ZeroAddress, 0, input.rawHex,
                        IF r THEN "true" ELSE "false")
    /\ UNCHANGED <<scheduleVars, vaultVars, verifierVars, backendVars, peripheralVars>>

markPayoutProcessed(employee, periodId) ==
    /\ localProcessed' = localProcessed \cup {keyFor(employee, periodId)}
    /\ last' = Call("Verifier.markPayoutProcessed", employee.addr, periodId, "ok")
    /\ UNCHANGED <<scheduleVars, vaultVars, verifierVars, backendVars, proofSeen, registered,
                   peripheralVars>>

reset ==
    /\ proofSeen' = {}
    /\ localProcessed' = {}
    /\ registered' = {}
    /\ last' = Call("Verifier.reset", ZeroAddress, 0, "ok")
    /\ UNCHANGED <<scheduleVars, vaultVars, verifierVars, backendVars, peripheralVars>>

(***************************************************************************)
(* Verifier.verify as its callers see it when calls overlap: the body up   *)
(* to `await this.simulatedDelay(50)` runs without interruption, a call    *)
(* that passed the checks then waits, and returns true when its delay      *)
(* ends.  A call that fails a check returns false at once.                 *)
(***************************************************************************)
Callers == {1, 2, 3}

NoCall == [pc |-> "idle", rawHex |-> NoHex]

(* Variant: the proof not marked as seen before the delay. *)
verifyEnterNoMark(c, input, markProcessed) ==
    LET r == verifyResult(input) IN
    /\ verifyCalls[c] = NoCall
    /\ verifyCalls' = IF r THEN [verifyCalls EXCEPT ![c] =
                                   [pc |-> "delay", rawHex |-> input.rawHex]]
                      ELSE verifyCalls
    /\ last' = [CallWith("Verifier.verify", ZeroAddress, 0, input.rawHex,
                         IF r THEN "pending" ELSE "false") EXCEPT !.inner = "overlapping"]
    /\ UNCHANGED <<scheduleVars, vaultVars, verifierVars, backendVars, localVars,
                   codecVars, schedulerVars, webhookVars, returnedTrue>>

verifyEnter(c, input, markProcessed) ==
    LET n == normalizeInput(input)
        r == verifyResult(input) IN
    /\ verifyCalls[c] = NoCall
    /\ proofSeen' = IF r THEN proofSeen \cup {input.rawHex} ELSE proofSeen
    /\ localProcessed' = IF r /\ markProcessed
                         THEN localProcessed \cup {keyFor(n.employee, n.periodId)}
                         ELSE localProcessed
    /\ registered' = IF r THEN registered \cup {hexToBuffer(input.rawHex)} ELSE registered
    /\ verifyCalls' = IF r THEN [verifyCalls EXCEPT ![c] =
                                   [pc |-> "delay", rawHex |-> input.rawHex]]
                      ELSE verifyCalls
    /\ last' = [CallWith("Verifier.verify", ZeroAddress, 0, input.rawHex,
                         IF r THEN "pending" ELSE "false") EXCEPT !.inner = "overlapping"]
    /\ UNCHANGED <<scheduleVars, vaultVars, verifierVars, backendVars,
                   codecVars, schedulerVars, webhookVars, returnedTrue>>

Returned(raw) == IF raw \in DOMAIN returnedTrue THEN returnedTrue[raw] ELSE 0

verifyReturn(c) ==
    LET raw == verifyCalls[c].rawHex IN
    /\ verifyCalls[c].pc = "delay"
    /\ verifyCalls' = [verifyCalls EXCEPT ![c] = NoCall]
    /\ returnedTrue' = [x \in DOMAIN returnedTrue \cup {raw} |->
                            IF x = raw THEN Returned(raw) + 1 ELSE returnedTrue[x]]
    /\ last' = [CallWith("Verifier.verify", ZeroAddress, 0, raw, "true")
                   EXCEPT !.inner = "overlapping"]
    /\ UNCHANGED <<scheduleVars, vaultVars, verifierVars, backendVars, localVars,
                   codecVars, schedulerVars, webhookVars>>

(***************************************************************************)
(* x402.parseFacilitatorProof (backend/src/x402.ts).  The input is hex     *)
(* text with prefix 0x or 0X; the result holds rawHex, the employee as a   *)
(* checksummed address, periodId, amount and the bytes after the layout,   *)
(* or is the error thrown.                                                 *)
(***************************************************************************)
normalizeToBuffer(input) == input.bytes

ParseError(message) == [error |-> message]

(* Variant: an input longer than the layout refused. *)
parseFacilitatorProofExactLength(input) ==
    LET buf == normalizeToBuffer(input) IN
    IF Len(buf) # MIN_PROOF_BYTES THEN ParseError("facilitatorProof-too-short")
    ELSE [rawHex |-> HexText("0x", buf),
          employee |-> AddressText(addressOfBytes(SubSeq(buf, 1, ADDRESS_BYTES)), "checksum"),
          periodId |-> bufferToBigInt(SubSeq(buf, ADDRESS_BYTES + 1,
                                             ADDRESS_BYTES + WORD_BYTES)),
          amount |-> bufferToBigInt(SubSeq(buf, ADDRESS_BYTES + WORD_BYTES + 1,
                                           MIN_PROOF_BYTES)),
          extra |-> SubSeq(buf, MIN_PROOF_BYTES + 1, Len(buf))]

parseFacilitatorProof(input) ==
    LET buf == normalizeToBuffer(input) IN
    IF Len(buf) < MIN_PROOF_BYTES THEN ParseError("facilitatorProof-too-short")
    ELSE [rawHex |-> HexText("0x", buf),
          employee |-> AddressText(addressOfBytes(SubSeq(buf, 1, ADDRESS_BYTES)), "checksum"),
          periodId |-> bufferToBigInt(SubSeq(buf, ADDRESS_BYTES + 1,
                                             ADDRESS_BYTES + WORD_BYTES)),
          amount |-> bufferToBigInt(SubSeq(buf, ADDRESS_BYTES + WORD_BYTES + 1,
                                           MIN_PROOF_BYTES)),
          extra |-> SubSeq(buf, MIN_PROOF_BYTES + 1, Len(buf))]

(* A call of parseFacilitatorProof. *)
parseProof(input) ==
    /\ parseCall' = [input |-> input, result |-> parseFacilitatorProof(input)]
    /\ last' = Call("parseFacilitatorProof", ZeroAddress, 0, "ok")
    /\ UNCHANGED <<scheduleVars, vaultVars, verifierVars, backendVars, localVars,
                   schedulerVars, webhookVars, verifyVars>>

(***************************************************************************)
(* Scheduler (scheduler/src/index.ts).  handleSalaryDueEvent is called by  *)
(* the live listener and by the cron rescan; a call runs from one await to *)
(* the next: the GET of the claim endpoint, facilitator.createPayment, the *)
(* POST to the backend's /salary/verify.                                   *)
(***************************************************************************)
HandlerSlots == {"listener", "cron"}

NoHandler ==
    [pc |-> "idle", employee |-> AddressText(ZeroAddress, "checksum"), periodId |-> 0,
     to |-> AddressText(ZeroAddress, "checksum"), periodIdFromX402 |-> 0, amount |-> 0]

(* `${empLower}:${pid}` *)
schedulerKey(employee, periodId) == <<toLowerCase(employee), decimalString(periodId)>>

(* Backend, GET /salary/claim/:employeeAddress, answered at time `now`:    *)
(* the salary from getEmployee, the periodId from nextExpectedPeriod.      *)
salaryClaim(employeeAddress, now) ==
    IF ~isAddress(employeeAddress) THEN [status |-> 400]
    ELSE IF ~employees[employeeAddress.addr].exists THEN [status |-> 404]
    ELSE [status |-> 402,
          x402 |-> [to |-> employeeAddress,
                    amount |-> employees[employeeAddress.addr].salary,
                    periodId |-> nextExpectedPeriodValue(employeeAddress.addr, now)]]

(* Entry: the key is looked up in processedSet; then the GET is sent. *)
handleSalaryDueEvent(h, employee, periodId) ==
    LET key == schedulerKey(employee, periodId) IN
    /\ handlers[h].pc = "idle"
    /\ handlers' = IF key \in processedSet THEN handlers
                   ELSE [handlers EXCEPT ![h] =
                           [NoHandler EXCEPT !.pc = "claim", !.employee = employee,
                                             !.periodId = periodId]]
    /\ last' = Call("handleSalaryDueEvent", employee.addr, periodId,
                    IF key \in processedSet THEN "skipped" ELSE "started")
    /\ UNCHANGED <<scheduleVars, vaultVars, verifierVars, backendVars, localVars,
                   codecVars, webhookVars, verifyVars, processedSet, flows>>

(* The claim endpoint has answered (or the GET has failed for good). *)
handlerClaimed(h, now, failed) ==
    LET r == handlers[h]
        resp == salaryClaim(r.employee, now)
        res == IF failed THEN "claim-failed"
               ELSE IF resp.status # 402 THEN "not-402"
               ELSE IF resp.x402.amount = 0 \/ resp.x402.periodId = 0 THEN "malformed-x402"
               ELSE "ok" IN
    /\ r.pc = "claim"
    /\ handlers' = [handlers EXCEPT ![h] =
                      IF res = "ok"
                      THEN [r EXCEPT !.pc = "pay", !.to = resp.x402.to,
                                     !.periodIdFromX402 = resp.x402.periodId,
                                     !.amount = resp.x402.amount]
                      ELSE NoHandler]
    /\ last' = Call("handleSalaryDueEvent:claim", r.employee.addr, r.periodId, res)
    /\ UNCHANGED <<scheduleVars, vaultVars, verifierVars, backendVars, localVars,
                   codecVars, webhookVars, verifyVars, processedSet, flows>>

(* facilitator.createPayment has returned a proof, or an empty one. *)
handlerPaid(h, empty) ==
    LET r == handlers[h] IN
    /\ r.pc = "pay"
    /\ handlers' = [handlers EXCEPT ![h] = IF empty THEN NoHandler
                                           ELSE [r EXCEPT !.pc = "post"]]
    /\ last' = Call("handleSalaryDueEvent:createPayment", r.employee.addr, r.periodId,
                    IF empty THEN "empty-proof" ELSE "ok")
    /\ UNCHANGED <<scheduleVars, vaultVars, verifierVars, backendVars, localVars,
                   codecVars, webhookVars, verifyVars, processedSet, flows>>

(* The backend has answered the POST of {facilitatorProof, employee: to,   *)
(* periodId: periodIdFromX402} with `status` (0: the POST failed for       *)
(* good).  `last` names the pair posted and the proof.                     *)
handlerPosted(h, status) ==
    LET r == handlers[h]
        key == schedulerKey(r.employee, r.periodId) IN
    /\ r.pc = "post"
    /\ handlers' = [handlers EXCEPT ![h] = NoHandler]
    /\ processedSet' = IF status = 200 THEN processedSet \cup {key} ELSE processedSet
    /\ flows' = IF status = 200 THEN [flows EXCEPT ![key] = @ + 1] ELSE flows
    /\ last' = CallWith("handleSalaryDueEvent:verify", r.to.addr, r.periodIdFromX402,
                        toHex(buildFacilitatorProofHex(r.to.addr, r.periodIdFromX402,
                                                       r.amount)),
                        IF status = 200 THEN "ok" ELSE "backend-rejected")
    /\ UNCHANGED <<scheduleVars, vaultVars, verifierVars, backendVars, localVars,
                   codecVars, webhookVars, verifyVars>>

(***************************************************************************)
(* Webhook backend (scheduler/src/index.ts 524-1209), in front of the      *)
(* record-mode vault: POST /salary/webhook.  A request runs from one await *)
(* to the next: salarySchedule.getEmployee, payrollVault.isPaid, the       *)
(* sending of the recordPayment transaction, its receipt.                  *)
(***************************************************************************)
WebhookIds == {"w1", "w2"}

NoWebhook ==
    [pc |-> "idle", webhookId |-> "none",
     body |-> [event |-> "none", employee |-> AddressText(ZeroAddress, "checksum"),
               periodId |-> 0, amount |-> <<>>]]

(* The uint256 ethers encodes from a decimal string. *)
RECURSIVE numberOfDecimal(_)
numberOfDecimal(digits) ==
    IF digits = <<>> THEN 0
    ELSE 10 * numberOfDecimal(SubSeq(digits, 1, Len(digits) - 1)) + digits[Len(digits)]

getPaymentKey(employee, periodId) == <<toLowerCase(employee), decimalString(periodId)>>

WebhookResponse(webhookId, body, res) ==
    [CallWith("salaryWebhook", body.employee.addr, body.periodId, 0, res)
        EXCEPT !.inner = webhookId]

(* Up to the first await: signature, idempotency lookup, event, fields. *)
salaryWebhookEntry(webhookId, signed, body) ==
    IF ~signed THEN "invalid-signature"
    ELSE IF webhookId # "none" /\ webhookId \in processedWebhooks THEN "already-processed"
    ELSE IF body.event # "payment.completed" THEN "unexpected-event-type"
    ELSE IF body.periodId = 0 \/ body.amount = <<>> THEN "missing-required-fields"
    ELSE "pending"

salaryWebhook(s, webhookId, signed, body) ==
    LET e == salaryWebhookEntry(webhookId, signed, body) IN
    /\ webhooks[s].pc = "idle"
    /\ webhooks' = IF e = "pending"
                   THEN [webhooks EXCEPT ![s] =
                           [pc |-> "employee", webhookId |-> webhookId, body |-> body]]
                   ELSE webhooks
    /\ last' = WebhookResponse(webhookId, body, e)
    /\ UNCHANGED <<scheduleVars, vaultVars, verifierVars, backendVars, localVars,
                   codecVars, schedulerVars, verifyVars, processedWebhooks, processedPayments,
                   webhookLog>>

(* salarySchedule.getEmployee has answered. *)
salaryWebhookEmployee(s) ==
    LET r == webhooks[s]
        employeeInfo == employees[r.body.employee.addr]
        res == IF ~employeeInfo.exists THEN "employee-not-found"
               ELSE IF r.body.amount # decimalString(employeeInfo.salary)
                    THEN "amount-mismatch"
               ELSE "pending" IN
    /\ r.pc = "employee"
    /\ webhooks' = [webhooks EXCEPT ![s] = IF res = "pending" THEN [r EXCEPT !.pc = "isPaid"]
                                           ELSE NoWebhook]
    /\ last' = WebhookResponse(r.webhookId, r.body, res)
    /\ UNCHANGED <<scheduleVars, vaultVars, verifierVars, backendVars, localVars,
                   codecVars, schedulerVars, verifyVars, processedWebhooks, processedPayments,
                   webhookLog>>

(* payrollVault.isPaid has answered. *)
salaryWebhookIsPaid(s) ==
    LET r == webhooks[s]
        alreadyPaid == r.body.periodId \in paid[r.body.employee.addr] IN
    /\ r.pc = "isPaid"
    /\ webhooks' = [webhooks EXCEPT ![s] = IF alreadyPaid THEN NoWebhook
                                           ELSE [r EXCEPT !.pc = "record"]]
    /\ processedWebhooks' = IF alreadyPaid /\ r.webhookId # "none"
                            THEN processedWebhooks \cup {r.webhookId}
                            ELSE processedWebhooks
    /\ last' = WebhookResponse(r.webhookId, r.body,
                               IF alreadyPaid THEN "already-recorded" ELSE "pending")
    /\ UNCHANGED <<scheduleVars, vaultVars, verifierVars, backendVars, localVars,
                   codecVars, schedulerVars, verifyVars, processedPayments, webhookLog>>

(* payrollVault.recordPayment(employee, periodId, amount) is sent: ethers   *)
(* estimates the gas against the chain as it is and throws when the call   *)
(* would revert; otherwise the transaction is broadcast.                   *)
salaryWebhookSend(s) ==
    LET r == webhooks[s]
        estimate == recordPaymentResult(r.body.employee.addr, r.body.periodId,
                                        numberOfDecimal(r.body.amount)) IN
    /\ r.pc = "record"
    /\ webhooks' = [webhooks EXCEPT ![s] = IF estimate = "ok" THEN [r EXCEPT !.pc = "wait"]
                                           ELSE NoWebhook]
    /\ webhookLog' = IF estimate = "ok" /\ r.webhookId # "none"
                     THEN [webhookLog EXCEPT ![r.webhookId].recordPayment = @ + 1]
                     ELSE webhookLog
    /\ last' = WebhookResponse(r.webhookId, r.body,
                               IF estimate = "ok" THEN "pending" ELSE "internal-error")
    /\ UNCHANGED <<scheduleVars, vaultVars, verifierVars, backendVars, localVars,
                   codecVars, schedulerVars, verifyVars, processedWebhooks, processedPayments>>

(* tx.wait(): the transaction is mined at time `now`; a revert is thrown   *)
(* and answered 500.                                                       *)
salaryWebhookMined(s, now) ==
    LET r == webhooks[s]
        employee == r.body.employee.addr
        amount == numberOfDecimal(r.body.amount)
        tx == recordPaymentResult(employee, r.body.periodId, amount) IN
    /\ r.pc = "wait"
    /\ vaultMode = "record"
    /\ recordPaymentTx(employee, r.body.periodId, amount, now)
    /\ webhooks' = [webhooks EXCEPT ![s] = NoWebhook]
    /\ processedWebhooks' = IF tx = "ok" /\ r.webhookId # "none"
                            THEN processedWebhooks \cup {r.webhookId}
                            ELSE processedWebhooks
    /\ processedPayments' = IF tx = "ok"
                            THEN processedPayments
                                    \cup {getPaymentKey(r.body.employee, r.body.periodId)}
                            ELSE processedPayments
    /\ webhookLog' = IF tx = "ok" /\ r.webhookId # "none"
                     THEN [webhookLog EXCEPT ![r.webhookId].success = TRUE]
                     ELSE webhookLog
    /\ last' = WebhookResponse(r.webhookId, r.body,
                               IF tx = "ok" THEN "success" ELSE "internal-error")
    /\ UNCHANGED <<backendVars, localVars, codecVars, schedulerVars, verifyVars>>

(***************************************************************************)
(* The contracts after deployment.  The release-mode vault's constructor   *)
(* takes the schedule and the verifier, each possibly address(0) (here     *)
(* both are given or neither, the setters cover the rest); the record-mode *)
(* vault's constructor requires the schedule and knows no verifier.        *)
(***************************************************************************)
InitSchedule ==
    /\ employees = [a \in Addresses |-> NoEmployee]
    /\ periodProcessed = [a \in Addresses |-> {}]
    /\ payrollVault = "zero"
    /\ scheduleOwner = "admin"

InitVault ==
    /\ vaultMode \in {"release", "record"}
    /\ vaultEmployees = [a \in Addresses |-> NoEmployeeInfo]
    /\ paid = [a \in Addresses |-> {}]
    /\ periodBalances = [p \in PeriodIds |-> 0]
    /\ totalBalance = 0
    /\ salarySchedule \in (IF vaultMode = "record" THEN {TRUE} ELSE BOOLEAN)
    /\ paymentVerifier \in (IF vaultMode = "record" THEN {FALSE} ELSE {salarySchedule})
    /\ tokenBalance = [h \in {"vault"} \cup Employees |-> 0]
    /\ released = {}
    /\ settled = {}

InitVerifier ==
    /\ proofConsumed = {}
    /\ isVerified = {}

PayoutKeys ==
    {payoutKey(AddressText(a, "lower"), p) : a \in Employees, p \in PeriodIds}

InitBackend ==
    /\ processedPayouts = {}
    /\ verifiedProofs = {}
    /\ requests = [s \in Slots |-> Idle]
    /\ orchestrated = [k \in PayoutKeys |-> 0]

InitLocal ==
    /\ proofSeen = {}
    /\ localProcessed = {}
    /\ registered = {}

InitCodec == parseCall = [input |-> NoHex, result |-> Null]

SchedulerPeriods == {HOUR, 2 * HOUR}
SchedulerKeys ==
    {schedulerKey(AddressText(a, "checksum"), p) : a \in Employees, p \in SchedulerPeriods}

InitScheduler ==
    /\ processedSet = {}
    /\ handlers = [h \in HandlerSlots |-> NoHandler]
    /\ flows = [k \in SchedulerKeys |-> 0]

InitWebhook ==
    /\ processedWebhooks = {}
    /\ processedPayments = {}
    /\ webhooks = [s \in Slots |-> NoWebhook]
    /\ webhookLog = [w \in WebhookIds |-> [recordPayment |-> 0, success |-> FALSE]]

InitVerify ==
    /\ verifyCalls = [c \in Callers |-> NoCall]
    /\ returnedTrue = [raw \in {} |-> 0]

Init ==
    /\ InitSchedule
    /\ InitVault
    /\ InitVerifier
    /\ InitBackend
    /\ InitLocal
    /\ InitCodec
    /\ InitScheduler
    /\ InitWebhook
    /\ InitVerify
    /\ last = Call("constructor", ZeroAddress, 0, "ok")

(***************************************************************************)
(* The calls made to the deployed contracts.                               *)
(***************************************************************************)
ChainEmployees == {"e1"}
ChainPeriods == {THIRTY_DAY}
ChainCadences == {Hourly, Biweekly}
ChainTimes == {0, THIRTY_DAY}
ChainProofs ==
    {buildFacilitatorProofHex("e1", THIRTY_DAY, 1), buildFacilitatorProofHex("e1", 0, 1),
     Zeros(MIN_PROOF_BYTES - 1)}
Amounts == 0 .. MaxFunds

ScheduleCalls ==
    \/ \E a \in ChainEmployees, c \in ChainCadences, t \in ChainTimes :
          assignEmployee(a, MaxSalary, c, t)
    \/ \E a \in ChainEmployees : removeEmployee(a)
    \/ \E a \in ChainEmployees, p \in ChainPeriods : triggerSalaryDue(a, p, "accepts")
    \/ \E a \in ChainEmployees, p \in ChainPeriods : confirmPaid(a, p, THIRTY_DAY)
    \/ \E a \in ChainEmployees, p \in ChainPeriods : adminClearProcessed(a, p)

VaultCalls ==
    \/ setSalarySchedule("schedule")
    \/ setPaymentVerifier("verifier")
    \/ \E a \in ChainEmployees, s \in Salaries \ {0},
          c \in {VAULT_MONTHLY - 1, VAULT_MONTHLY} : vaultAssignEmployee(a, s, c, 0)
    \/ \E p \in ChainPeriods, n \in Amounts \ {0} : depositPayroll(p, n, TRUE)
    \/ \E n \in Amounts \ {0} : withdrawExcess("admin", n)
    \/ \E n \in Amounts \ {0} : rescueTokens("admin", n)
    \/ \E a \in ChainEmployees, p \in ChainPeriods : releaseSalary(a, p, THIRTY_DAY, "none")
    \/ \E a \in ChainEmployees, p \in ChainPeriods, n \in Amounts \ {0} :
          recordPayment(a, p, n, THIRTY_DAY)
    \/ \E a \in ChainEmployees, p \in ChainPeriods : adminClearPaid(a, p)

VerifierCalls == vaultMode = "release" /\ \E raw \in ChainProofs : verifyPayment(raw)

Next == ScheduleCalls \/ VaultCalls \/ VerifierCalls

Spec == Init /\ [][Next]_vars

(***************************************************************************)
(* The schedule alone, called with every kind of argument: address(0),     *)
(* salary 0, the four cadences, aligned and misaligned periods, a callback *)
(* that accepts or reverts; its ownership may pass to the vault.           *)
(***************************************************************************)
SchedEmployees == {ZeroAddress, "e1"}
SchedPeriods == {MINUTE, MINUTE + 1, THIRTY_DAY}

SchedNows == {MINUTE + 1, HOUR, THIRTY_DAY}

NextSchedule ==
    \/ \E a \in SchedEmployees, s \in {0, MaxSalary}, c \in Cadences, t \in {0, HOUR} :
          assignEmployee(a, s, c, t)
    \/ \E a \in SchedEmployees : removeEmployee(a)
    \/ \E v \in {"zero", "vault", "other"} : setPayrollVault(v)
    \/ transferOwnership("vault")
    \/ \E a \in SchedEmployees, t \in Timestamps : setLastPaidTimestamp(a, t)
    \/ \E a \in SchedEmployees, p \in SchedPeriods, callback \in Callbacks :
          triggerSalaryDue(a, p, callback)
    \/ \E a \in SchedEmployees, p \in SchedPeriods, t \in Timestamps : confirmPaid(a, p, t)
    \/ \E a \in SchedEmployees, p \in SchedPeriods : adminClearProcessed(a, p)
    \/ \E a \in SchedEmployees, s \in {0, MaxSalary} :
          vaultAssignEmployee(a, s, VAULT_MONTHLY, 0)
    \/ \E a \in SchedEmployees, now \in SchedNows : nextExpectedPeriod(a, now)

(* The release-mode vault constructed with its schedule and its verifier. *)
InitConfigured == Init /\ vaultMode = "release" /\ salarySchedule

SpecSchedule == InitConfigured /\ [][NextSchedule]_vars

(***************************************************************************)
(* The backend in front of the release-mode vault: the owner assigns the   *)
(* employee and deposits, and POST /salary/verify requests arrive with a   *)
(* proof or a txHash.                                                      *)
(***************************************************************************)
ProofA == buildFacilitatorProofHex("e1", THIRTY_DAY, 1)
ProofB == buildFacilitatorProofHex("e1", THIRTY_DAY, 2)

Bodies ==
    [employee : {AddressText("e1", "checksum"), AddressText("e1", "lower")},
     periodId : {THIRTY_DAY},
     facilitatorProof : {toHex(ProofA), toHex(ProofB)},
     txHash : {"none"}]
    \cup
    [employee : {AddressText("e1", "checksum")},
     periodId : {THIRTY_DAY},
     facilitatorProof : {NoHex},
     txHash : {"none", "unknown", "failed", "mined"}]
    \cup
    [employee : {AddressText("e1", "checksum"), AddressText("0x?", "lower")},
     periodId : {0},
     facilitatorProof : {NoHex},
     txHash : {"mined"}]

NextBackend ==
    \/ assignEmployee("e1", MaxSalary, Hourly, 0)
    \/ vaultAssignEmployee("e1", 1, VAULT_MONTHLY - 1, 0)
    \/ depositPayroll(THIRTY_DAY, 1, TRUE)
    \/ \E s \in Slots, body \in Bodies : salaryVerify(s, body)
    \/ \E s \in Slots : salaryVerifyReceipt(s)
    \/ \E s \in Slots : salaryVerifySdk(s)
    \/ \E s \in Slots : salaryVerifyPayment(s)
    \/ \E s \in Slots : salaryVerifyRelease(s, THIRTY_DAY)

SpecBackend == InitConfigured /\ [][NextBackend]_vars

(***************************************************************************)
(* The local Verifier alone.                                               *)
(***************************************************************************)
VerifierInputs ==
    {StringInput(HexText(x, ProofA)) : x \in {"0x", "0X"}}
        \cup {ParsedInput(ProofA), ParsedInput(ProofB), StringInput(toHex(ProofB))}
        \cup {StringInput(toHex(buildFacilitatorProofHex("e1", 0, 1))),
              StringInput(toHex(Zeros(MIN_PROOF_BYTES - 1)))}

NextVerifier ==
    \/ \E input \in VerifierInputs, markProcessed \in BOOLEAN : verify(input, markProcessed)
    \/ \E p \in {HOUR, THIRTY_DAY} : markPayoutProcessed(AddressText("e1", "checksum"), p)
    \/ reset

SpecVerifier == InitConfigured /\ [][NextVerifier]_vars

(***************************************************************************)
(* The local Verifier with overlapping callers: verify calls with the      *)
(* inputs above from three callers, each waiting in its delay while the    *)
(* others enter, and payouts marked processed in between.                  *)
(***************************************************************************)
NextVerify ==
    \/ \E c \in Callers, input \in VerifierInputs, markProcessed \in BOOLEAN :
          verifyEnter(c, input, markProcessed)
    \/ \E c \in Callers : verifyReturn(c)
    \/ \E p \in {HOUR, THIRTY_DAY} : markPayoutProcessed(AddressText("e1", "checksum"), p)

SpecVerify == InitConfigured /\ [][NextVerify]_vars

(***************************************************************************)
(* The proof codec alone: proofs built for every address, for period ids   *)
(* and amounts of one to four bytes, with and without bytes after the      *)
(* layout, written with either prefix; and inputs that are too short.      *)
(***************************************************************************)
(* The widest word of TLC's integers; the code's words go to 2^256 - 1. *)
MaxWord == 2 * (64 * 256 * 256 * 256 - 1) + 1
CodecWords == {0, 1, 255, 256, THIRTY_DAY, MaxWord}
CodecAmounts == {0, 1, 65536, MaxWord}
Extras == {<<>>, <<0>>, <<255, 1>>}
ShortInputs == {<<>>, Zeros(ADDRESS_BYTES), Zeros(MIN_PROOF_BYTES - 1)}

NextCodec ==
    \/ \E e \in Addresses, p \in CodecWords, a \in CodecAmounts, extra \in Extras,
          prefix \in {"0x", "0X"} :
          parseProof(HexText(prefix, buildFacilitatorProofHex(e, p, a) \o extra))
    \/ \E short \in ShortInputs : parseProof(HexText("0x", short))

SpecCodec == InitConfigured /\ [][NextCodec]_vars

(***************************************************************************)
(* The scheduler: employees assigned hourly, SalaryDue events of two       *)
(* periods delivered to the listener and to the rescan any number of       *)
(* times, the claim endpoint answering in the first or the second hour,    *)
(* the backend answering 200, 500 or not at all.                           *)
(***************************************************************************)
ClaimTimes == {HOUR + MINUTE, 2 * HOUR}
Statuses == {200, 500, 0}

NextScheduler ==
    \/ \E a \in Employees : assignEmployee(a, MaxSalary, Hourly, 0)
    \/ \E h \in HandlerSlots, p \in SchedulerPeriods :
          handleSalaryDueEvent(h, AddressText("e1", "checksum"), p)
    \/ \E h \in HandlerSlots, now \in ClaimTimes, failed \in BOOLEAN :
          handlerClaimed(h, now, failed)
    \/ \E h \in HandlerSlots, empty \in BOOLEAN : handlerPaid(h, empty)
    \/ \E h \in HandlerSlots, status \in Statuses : handlerPosted(h, status)

SpecScheduler == InitConfigured /\ [][NextScheduler]_vars

(***************************************************************************)
(* The webhook backend in front of the record-mode vault: the owner        *)
(* assigns the employee and deposits, the facilitator delivers             *)
(* two payment.completed webhooks for the payment of (e1, THIRTY_DAY),     *)
(* each any number of times, signed or not.                                *)
(***************************************************************************)
WebhookBody ==
    [event |-> "payment.completed", employee |-> AddressText("e1", "checksum"),
     periodId |-> THIRTY_DAY, amount |-> decimalString(MaxSalary)]

InitRecording == Init /\ vaultMode = "record"

NextWebhook ==
    \/ assignEmployee("e1", MaxSalary, Monthly, 0)
    \/ depositPayroll(THIRTY_DAY, MaxSalary, TRUE)
    \/ \E s \in Slots, w \in WebhookIds, signed \in BOOLEAN :
          salaryWebhook(s, w, signed, WebhookBody)
    \/ \E s \in Slots : salaryWebhookEmployee(s)
    \/ \E s \in Slots : salaryWebhookIsPaid(s)
    \/ \E s \in Slots : salaryWebhookSend(s)
    \/ \E s \in Slots : salaryWebhookMined(s, THIRTY_DAY)

SpecWebhook == InitRecording /\ [][NextWebhook]_vars

(***************************************************************************)
(* Settlements: either vault constructed with its schedule, the schedule   *)
(* possibly handed over to the vault (so that the vault may call its       *)
(* onlyOwner functions), the PaymentVerifier deployed beside either vault, *)
(* two periods funded and settled.                                         *)
(***************************************************************************)
SettlePeriods == {HOUR, THIRTY_DAY}
SettleProofs ==
    {buildFacilitatorProofHex("e1", THIRTY_DAY, 1), buildFacilitatorProofHex("e1", 0, 1)}

NextSettle ==
    \/ \E t \in {0, HOUR} : assignEmployee("e1", MaxSalary, Hourly, t)
    \/ transferOwnership("vault")
    \/ \E p \in SettlePeriods : triggerSalaryDue("e1", p, "accepts")
    \/ \E p \in SettlePeriods : adminClearProcessed("e1", p)
    \/ \E p \in SettlePeriods : adminEmitSalaryDue("e1", p)
    \/ \E s \in Salaries \ {0} : vaultAssignEmployee("e1", s, VAULT_MONTHLY - 1, 0)
    \/ \E p \in SettlePeriods, n \in Amounts \ {0} : depositPayroll(p, n, TRUE)
    \/ \E raw \in SettleProofs : verifyPayment(raw)
    \/ \E p \in SettlePeriods, hook \in TransferHooks :
          releaseSalary("e1", p, THIRTY_DAY, hook)
    \/ \E p \in SettlePeriods, n \in Amounts \ {0} : recordPayment("e1", p, n, THIRTY_DAY)

InitSettle == Init /\ salarySchedule

SpecSettle == InitSettle /\ [][NextSettle]_vars

(***************************************************************************)
(* Schedule and release-mode vault without adminClearProcessed and         *)
(* adminClearPaid: the owner assigns, funds, signals and releases.         *)
(***************************************************************************)
NextNoClear ==
    \/ \E t \in {0, HOUR} : assignEmployee("e1", MaxSalary, Hourly, t)
    \/ \E v \in {"vault", "other"} : setPayrollVault(v)
    \/ transferOwnership("vault")
    \/ \E p \in SettlePeriods, callback \in {"accepts", "reverts"} :
          triggerSalaryDue("e1", p, callback)
    \/ \E s \in Salaries \ {0} : vaultAssignEmployee("e1", s, VAULT_MONTHLY - 1, 0)
    \/ \E p \in SettlePeriods, n \in Amounts \ {0} : depositPayroll(p, n, TRUE)
    \/ \E raw \in SettleProofs : verifyPayment(raw)
    \/ \E p \in SettlePeriods : releaseSalary("e1", p, THIRTY_DAY, "none")
    \/ \E p \in SettlePeriods : confirmPaid("e1", p, THIRTY_DAY)

SpecNoClear == InitConfigured /\ [][NextNoClear]_vars

(***************************************************************************)
(* Properties of the schedule.                                             *)
(***************************************************************************)

(* The cadence durations in seconds, as documented. *)
Durations ==
    (Minute :> 60) @@ (Hourly :> 3600) @@ (Biweekly :> 1209600) @@ (Monthly :> 2592000)

(* C4.  Monotonic last-paid: a confirmPaid call never lowers any           *)
(* lastPaidTimestamp; a successful call sets the employee's                *)
(* lastPaidTimestamp to paidTimestamp, a strictly greater value; and a     *)
(* call by the owner for an assigned employee and a processed period with  *)
(* paidTimestamp <= lastPaidTimestamp fails with ts-not-later and leaves   *)
(* the employee records unchanged.                                         *)
C4_MonotonicLastPaid ==
    [][last'.op = "confirmPaid" =>
         /\ \A a \in Addresses :
               employees'[a].lastPaidTimestamp >= employees[a].lastPaidTimestamp
         /\ last'.res = "ok" =>
               /\ employees'[last'.emp].lastPaidTimestamp = last'.arg
               /\ last'.arg > employees[last'.emp].lastPaidTimestamp
         /\ (/\ scheduleOwner = "admin"
             /\ employees[last'.emp].exists
             /\ last'.pid \in periodProcessed[last'.emp]
             /\ last'.arg <= employees[last'.emp].lastPaidTimestamp) =>
               /\ last'.res = "ts-not-later"
               /\ employees' = employees]_vars

(* A confirmPaid with the timestamp already recorded, past 0, was refused. *)
C4_Witness ==
    /\ last.op = "confirmPaid"
    /\ last.res = "ts-not-later"
    /\ last.arg = employees[last.emp].lastPaidTimestamp
    /\ last.arg > 0

(* C5.  Due-ness ordering: for every employee and periodId, isDue answers  *)
(* with the reason of the first failing condition in the order employee    *)
(* exists, period aligned to the employee's cadence, period not processed, *)
(* periodId > lastPaidTimestamp; it answers (true, no reason) iff all four *)
(* hold; for an unassigned employee it answers not-assigned whatever else  *)
(* fails.                                                                  *)
C5_DueOrdering ==
    \A a \in Addresses, p \in PeriodIds :
        LET e == employees[a]
            exists == e.exists
            aligned == p % Durations[e.cadence] = 0
            fresh == p \notin periodProcessed[a]
            later == p > e.lastPaidTimestamp
            first == IF ~exists THEN "not-assigned"
                     ELSE IF ~aligned THEN "period-misaligned"
                     ELSE IF ~fresh THEN "already-processed"
                     ELSE IF ~later THEN "period-not-later-than-last-paid"
                     ELSE ""
        IN  /\ isDue(a, p)[1] <=> (exists /\ aligned /\ fresh /\ later)
            /\ isDue(a, p)[2] = first
            /\ ~exists => isDue(a, p) = <<FALSE, "not-assigned">>

(* triggerSalaryDue was refused with period-misaligned for a period that   *)
(* is also processed and not later than lastPaidTimestamp.                 *)
C5_Witness ==
    /\ last.op = "triggerSalaryDue"
    /\ last.res = "period-misaligned"
    /\ employees[last.emp].exists
    /\ last.pid \in periodProcessed[last.emp]
    /\ last.pid <= employees[last.emp].lastPaidTimestamp

(* C6.  Alignment correctness: isPeriodAligned(c, p) iff p mod the         *)
(* duration of c is 0, the durations being 60, 3600, 1209600 and 2592000   *)
(* seconds for Minute, Hourly, Biweekly and Monthly; and isDue for an      *)
(* assigned employee and a periodId not aligned to the employee's cadence  *)
(* answers (false, period-misaligned).                                     *)
C6_AlignmentCorrectness ==
    /\ \A c \in Cadences, p \in PeriodIds :
          isPeriodAligned(c, p) <=> (p % Durations[c] = 0)
    /\ \A a \in Addresses, p \in PeriodIds :
          (employees[a].exists /\ p % Durations[employees[a].cadence] # 0) =>
              isDue(a, p) = <<FALSE, "period-misaligned">>

(* triggerSalaryDue was refused with period-misaligned for an employee on  *)
(* the Monthly cadence and a period that is a multiple of a minute.        *)
C6_Witness ==
    /\ last.op = "triggerSalaryDue"
    /\ last.res = "period-misaligned"
    /\ employees[last.emp].exists
    /\ employees[last.emp].cadence = Monthly
    /\ last.pid % 60 = 0

(***************************************************************************)
(* Properties of the vault.                                                *)
(***************************************************************************)
IsSettlement(call) == call.op \in {"releaseSalary", "recordPayment"}

(* C1, as stated.  No double payout over any sequence of operations of the *)
(* vault: every releaseSalary/recordPayment attempt for an (employee,      *)
(* periodId) that a release or recordPayment has succeeded for before      *)
(* fails with already-paid.                                                *)
C1_NoDoublePayout ==
    [][(IsSettlement(last') /\ <<last'.emp, last'.pid>> \in released) =>
          last'.res = "already-paid"]_vars

(* C1, amended.  The PaidFlag of a pair is set exactly when a release or   *)
(* recordPayment has succeeded for it and adminClearPaid has not been      *)
(* called for it since; every attempt for such a pair fails with           *)
(* already-paid and moves no funds.  So between two successful settlements *)
(* of one pair there is an adminClearPaid of that pair.                    *)
C1_NoDoublePayoutUnlessCleared ==
    [][/\ \A a \in Employees, p \in PeriodIds :
             <<a, p>> \in settled' <=> p \in paid'[a]
       /\ (IsSettlement(last') /\ <<last'.emp, last'.pid>> \in settled) =>
             /\ last'.res = "already-paid"
             /\ UNCHANGED <<paid, periodBalances, totalBalance, tokenBalance>>]_vars

(* A second releaseSalary for a pair released before was refused. *)
C1_Witness ==
    /\ last.op = "releaseSalary"
    /\ last.res = "already-paid"
    /\ <<last.emp, last.pid>> \in settled

(* The state the happy path reaches before the release: the employee is in *)
(* the schedule with lastPaidTimestamp 0 and in the mirror, the vault has  *)
(* its schedule and verifier, the period is aligned, not processed and not *)
(* paid, a proof is registered for the pair, and the period balance and    *)
(* the tokens the vault holds cover the salary.                            *)
HappyPathReady(a, p) ==
    /\ employees[a].exists
    /\ employees[a].lastPaidTimestamp = 0
    /\ vaultEmployees[a].exists
    /\ salarySchedule
    /\ paymentVerifier
    /\ p % Durations[employees[a].cadence] = 0
    /\ p \notin periodProcessed[a]
    /\ p \notin paid[a]
    /\ <<a, p>> \in isVerified
    /\ periodBalances[p] >= vaultEmployees[a].salary
    /\ tokenBalance["vault"] >= vaultEmployees[a].salary

(* C7.  Happy path: releaseSalary(employee, P) called in the state above   *)
(* succeeds; after it isPaid(employee, P) is true, periodBalances[P] and   *)
(* totalBalance are each lower by exactly the salary, and the employee     *)
(* holds exactly the salary more.                                          *)
C7_HappyPath ==
    [][(last'.op = "releaseSalary" /\ HappyPathReady(last'.emp, last'.pid)) =>
          /\ last'.res = "ok"
          /\ last'.pid \in paid'[last'.emp]
          /\ periodBalances'[last'.pid] =
                 periodBalances[last'.pid] - vaultEmployees[last'.emp].salary
          /\ totalBalance' = totalBalance - vaultEmployees[last'.emp].salary
          /\ tokenBalance'[last'.emp] =
                 tokenBalance[last'.emp] + vaultEmployees[last'.emp].salary]_vars

(* A release succeeded and emptied the period balance: the employee holds  *)
(* the salary.                                                             *)
C7_Witness ==
    /\ last.op = "releaseSalary"
    /\ last.res = "ok"
    /\ last.pid \in paid[last.emp]
    /\ periodBalances[last.pid] = 0
    /\ tokenBalance[last.emp] = vaultEmployees[last.emp].salary

(* C8.  Insufficient funds path: releaseSalary for an employee in the      *)
(* mirror and a pair that is not paid, due and has a registered proof,     *)
(* when periodBalances[periodId] < salary, fails with                      *)
(* insufficient-period-funds and leaves the PaidFlags, periodBalances,     *)
(* totalBalance and the token balances unchanged.                          *)
C8_InsufficientFunds ==
    [][(/\ last'.op = "releaseSalary"
        /\ vaultEmployees[last'.emp].exists
        /\ last'.pid \notin paid[last'.emp]
        /\ salarySchedule
        /\ isDue(last'.emp, last'.pid)[1]
        /\ paymentVerifier
        /\ <<last'.emp, last'.pid>> \in isVerified
        /\ periodBalances[last'.pid] < vaultEmployees[last'.emp].salary) =>
          /\ last'.res = "insufficient-period-funds"
          /\ UNCHANGED <<paid, periodBalances, totalBalance, tokenBalance>>]_vars

(* A release with a registered proof was refused for lack of period funds  *)
(* while the vault held some funds for the period.                         *)
C8_Witness ==
    /\ last.op = "releaseSalary"
    /\ last.res = "insufficient-period-funds"
    /\ <<last.emp, last.pid>> \in isVerified
    /\ periodBalances[last.pid] > 0
    /\ periodBalances[last.pid] < vaultEmployees[last.emp].salary

(* The checks releaseSalary and recordPayment make before asking the       *)
(* schedule have passed.                                                   *)
ReachesDueCheck(call) ==
    /\ call.pid \notin paid[call.emp]
    /\ call.op = "releaseSalary" => vaultEmployees[call.emp].exists /\ salarySchedule
    /\ call.op = "recordPayment" => call.emp # ZeroAddress

Received(s) == last'.op = "POST /salary/verify" /\ last'.arg = s /\ requests[s] = Idle

(* C2, as stated.  Idempotent settlement: once POST /salary/verify has     *)
(* completed successfully for an (employee, periodId), that is, once its   *)
(* payout key is in processedPayouts, every later request for the key is   *)
(* answered already_processed with no transaction sent to the Proof        *)
(* Verifier or the vault, and exactly one release has been mined for the   *)
(* key through the endpoint.                                               *)
C2_IdempotentSettlement ==
    [][/\ \A s \in Slots :
             (/\ Received(s)
              /\ payoutKey(AddressText(last'.emp, "lower"), last'.pid) \in processedPayouts) =>
                /\ last'.res = "already_processed"
                /\ UNCHANGED <<scheduleVars, vaultVars, verifierVars>>
       /\ \A k \in processedPayouts' : orchestrated'[k] = 1]_vars

(***************************************************************************)
(* Properties of the local Verifier.                                       *)
(***************************************************************************)

(* C3, as stated.  Proof replay is rejected: verify of raw proof bytes     *)
(* that verify has accepted before (since the last reset) returns false,   *)
(* whether or not the payout was marked processed in between.              *)
C3_ProofReplayRejected ==
    [][(last'.op = "Verifier.verify" /\ hexToBuffer(last'.arg) \in registered) =>
          last'.res = "false"]_vars

(***************************************************************************)
(* Properties of the vault's funds.                                        *)
(***************************************************************************)
RECURSIVE SumBalances(_, _)
SumBalances(balances, periods) ==
    IF periods = {} THEN 0
    ELSE LET p == CHOOSE q \in periods : TRUE IN
         balances[p] + SumBalances(balances, periods \ {p})

(* C11, as stated.  Only unallocated funds can be withdrawn: a             *)
(* withdrawExcess(to, amount) that succeeds has amount <= totalBalance     *)
(* minus the sum of all period balances, and after every operation         *)
(* totalBalance >= the sum of the period balances.                         *)
C11_OnlyUnallocatedWithdrawn ==
    [][/\ (last'.op = "withdrawExcess" /\ last'.res = "ok"
            => last'.arg <= totalBalance - SumBalances(periodBalances, PeriodIds))
       /\ totalBalance' >= SumBalances(periodBalances', PeriodIds)]_vars

(***************************************************************************)
(* Properties of the due-signal.                                           *)
(***************************************************************************)

(* C12, as stated.  triggerSalaryDue does not roll back on a downstream    *)
(* failure: when the owner calls it for a due period and a vault is        *)
(* registered, the ProcessedFlag of the pair is set after the operation,   *)
(* whether the vault's onSalaryDue callback succeeded or failed.           *)
C12_NoRollbackOnCallbackFailure ==
    [][last'.op = "triggerSalaryDue"
         /\ scheduleOnlyOwner("admin") = "ok"
         /\ isDue(last'.emp, last'.pid)[1]
         /\ payrollVault # "zero"
       => last'.pid \in periodProcessed'[last'.emp]]_vars

(* C13, as stated.  The due-signal is issued at most once per pair: once   *)
(* triggerSalaryDue(e, p) has succeeded, every further triggerSalaryDue(e, *)
(* p), a re-entrant one made from the vault callback included, fails with  *)
(* already-processed until adminClearProcessed(e, p) is called.            *)
C13_DueSignalOnce ==
    [][last'.op = "triggerSalaryDue"
       => /\ (last'.pid \in periodProcessed[last'.emp]
               => last'.res = "already-processed")
          /\ last'.inner \in {"none", "already-processed"}]_vars

(* C13, amended.  A successful triggerSalaryDue(e, p) sets the             *)
(* ProcessedFlag, and only adminClearProcessed(e, p) clears it.  While it  *)
(* is set every triggerSalaryDue(e, p) fails and changes nothing: with     *)
(* already-processed when the caller is the owner, e is still assigned and *)
(* p is aligned to e's current cadence, and with the earlier reason        *)
(* (unauthorized, not-assigned, period-misaligned) otherwise.  A           *)
(* re-entrant call made from the vault callback is refused by the          *)
(* reentrancy guard.                                                       *)
C13_DueSignalOnceUntilCleared ==
    [][/\ (last'.op = "triggerSalaryDue"
            => /\ (last'.res = "ok" => last'.pid \in periodProcessed'[last'.emp])
               /\ (last'.pid \in periodProcessed[last'.emp]
                    => /\ last'.res # "ok"
                       /\ periodProcessed' = periodProcessed
                       /\ (/\ scheduleOnlyOwner("admin") = "ok"
                            /\ employees[last'.emp].exists
                            /\ isPeriodAligned(employees[last'.emp].cadence, last'.pid)
                           => last'.res = "already-processed"))
               /\ last'.inner \in {"none", "reentrant-call"})
       /\ \A e \in Addresses : \A p \in periodProcessed[e] :
             p \notin periodProcessed'[e]
             => last'.op = "adminClearProcessed" /\ last'.emp = e /\ last'.pid = p]_vars

(* A second triggerSalaryDue of a processed pair has just been refused. *)
C13_Witness ==
    /\ last.op = "triggerSalaryDue"
    /\ last.res = "already-processed"
    /\ last.pid \in periodProcessed[last.emp]

(***************************************************************************)
(* Properties of the lifecycle of a pair: trigger due, verify proof,       *)
(* release.                                                                *)
(***************************************************************************)

(* What a settlement call needs besides the schedule's processed flag: the *)
(* employee assigned (in the schedule, and in the mirror of the            *)
(* release-mode vault), the period aligned and later than the last paid    *)
(* one, the pair not paid, its proof registered, and the period funded     *)
(* with the amount to settle.                                              *)
SettlementAmount(call) ==
    IF call.op = "releaseSalary" THEN vaultEmployees[call.emp].salary ELSE call.arg

ReadyButForProcessed(call) ==
    /\ call.op \in {"releaseSalary", "recordPayment"}
    /\ employees[call.emp].exists
    /\ isPeriodAligned(employees[call.emp].cadence, call.pid)
    /\ call.pid > employees[call.emp].lastPaidTimestamp
    /\ call.pid \notin paid[call.emp]
    /\ <<call.emp, call.pid>> \in isVerified
    /\ call.op = "releaseSalary" => vaultEmployees[call.emp].exists /\ paymentVerifier
    /\ periodBalances[call.pid] >= SettlementAmount(call)
    /\ totalBalance >= SettlementAmount(call)
    /\ tokenBalance["vault"] >= SettlementAmount(call)

(* C14, as stated.  The lifecycle of a pair can run to completion: after   *)
(* triggerSalaryDue(e, p) has succeeded (the ProcessedFlag is set), with a *)
(* proof for (e, p) registered and the period funded with at least the     *)
(* salary, releaseSalary/recordPayment(e, p) succeeds and marks the pair   *)
(* paid.                                                                   *)
C14_LifecycleCompletes ==
    [][ReadyButForProcessed(last') /\ last'.pid \in periodProcessed[last'.emp]
       => last'.res = "ok" /\ last'.pid \in paid'[last'.emp]]_vars

(* C15, as stated.  Settlement advances the schedule: when the vault is    *)
(* the owner of the schedule (so authorised to call confirmPaid), a        *)
(* successful releaseSalary/recordPayment of (e, p) moves e's              *)
(* lastPaidTimestamp forward to the settlement time and isDue(e, p) is     *)
(* false afterwards.                                                       *)
C15_SettlementAdvancesSchedule ==
    [][\A e \in Employees, p \in PeriodIds :
          /\ last'.op \in {"releaseSalary", "recordPayment"}
          /\ last'.emp = e /\ last'.pid = p
          /\ last'.res = "ok"
          /\ scheduleOwner = "vault"
          => /\ employees'[e].lastPaidTimestamp > employees[e].lastPaidTimestamp
             /\ ~(isDue(e, p)[1])']_vars

(* C16.  A bookkeeping failure does not undo a release: when every check   *)
(* of releaseSalary/recordPayment(e, p) passes and the closing confirmPaid *)
(* of the schedule fails (the employee record stays as it was), the call   *)
(* still answers ok, the PaidFlag is set, the amount is deducted from the  *)
(* period balance and, in release mode, from totalBalance and transferred  *)
(* to the employee.                                                        *)
C16_BookkeepingFailureKeepsRelease ==
    [][\A e \in Employees, p \in PeriodIds :
          /\ ReadyButForProcessed(last')
          /\ last'.emp = e /\ last'.pid = p
          /\ p \notin periodProcessed[e]
          /\ employees' = employees
          => /\ last'.res = "ok"
             /\ p \in paid'[e]
             /\ periodBalances'[p] = periodBalances[p] - SettlementAmount(last')
             /\ last'.op = "releaseSalary"
                => /\ totalBalance' = totalBalance - SettlementAmount(last')
                   /\ tokenBalance'[e] = tokenBalance[e] + SettlementAmount(last')
                   /\ tokenBalance'["vault"] = tokenBalance["vault"] - SettlementAmount(last')]_vars

(* A release has succeeded with the vault as owner of the schedule, and    *)
(* the schedule's last-paid time has not moved to the settlement time.     *)
C16_Witness ==
    /\ last.op = "releaseSalary"
    /\ last.res = "ok"
    /\ scheduleOwner = "vault"
    /\ last.pid \in paid[last.emp]
    /\ tokenBalance[last.emp] > 0
    /\ employees[last.emp].lastPaidTimestamp < THIRTY_DAY

(***************************************************************************)
(* Properties of the record mode.                                          *)
(***************************************************************************)

(* C17, as stated.  recordPayment applies the same protections as release, *)
(* in the same order: for a pair not paid and due whose proof is not       *)
(* registered it fails with payment-not-verified, as releaseSalary does,   *)
(* and when it succeeds the proof is registered and exactly the employee's *)
(* salary is deducted from the period balance.                             *)
C17_RecordPaymentSameProtections ==
    [][\A e \in Employees, p \in PeriodIds :
          last'.op = "recordPayment" /\ last'.emp = e /\ last'.pid = p
          => /\ (/\ p \notin paid[e]
                  /\ isDue(e, p)[1]
                  /\ <<e, p>> \notin isVerified
                 => last'.res = "payment-not-verified")
             /\ (last'.res = "ok"
                 => /\ <<e, p>> \in isVerified
                    /\ periodBalances'[p] = periodBalances[p] - employees[e].salary)]_vars

(* C18.  recordPayment leaves custody untouched: a successful              *)
(* recordPayment(e, p, amount) moves no tokens and leaves totalBalance     *)
(* unchanged; it sets paid[e][p] and decreases periodBalances[p] by        *)
(* amount, and leaves every other period balance and every other paid flag *)
(* as they were.                                                           *)
C18_RecordPaymentFrame ==
    [][\A e \in Employees, p \in PeriodIds :
          /\ last'.op = "recordPayment" /\ last'.emp = e /\ last'.pid = p
          /\ last'.res = "ok"
          => /\ tokenBalance' = tokenBalance
             /\ totalBalance' = totalBalance
             /\ paid' = [paid EXCEPT ![e] = @ \cup {p}]
             /\ periodBalances' = [periodBalances EXCEPT ![p] = @ - last'.arg]]_vars

(* A recordPayment has succeeded while another period holds funds and the  *)
(* vault holds the tokens deposited.                                       *)
C18_Witness ==
    /\ last.op = "recordPayment"
    /\ last.res = "ok"
    /\ last.pid \in paid[last.emp]
    /\ \E q \in PeriodIds \ {last.pid} : periodBalances[q] > 0
    /\ totalBalance > periodBalances[last.pid]
    /\ tokenBalance["vault"] = totalBalance

(***************************************************************************)
(* Properties of the backend's settlement requests.                        *)
(***************************************************************************)

(* C19.  Concurrent settlement of one key: with POST /salary/verify        *)
(* requests for the same (employee, periodId) overlapping in any way, at   *)
(* most one releaseSalary succeeds for the key and at most one salary is   *)
(* transferred to the employee.                                            *)
C19_ConcurrentSettlementOnce ==
    /\ \A k \in PayoutKeys : orchestrated[k] <= 1
    /\ \A e \in Employees : tokenBalance[e] <= vaultEmployees[e].salary

(* A request that passed the processedPayouts check and had its proof      *)
(* registered is about to call releaseSalary, after the release of another *)
(* request for the same key was mined.                                     *)
C19_Witness ==
    \E s \in Slots :
        /\ requests[s].pc = "release"
        /\ orchestrated[payoutKey(requests[s].body.employee, requests[s].body.periodId)] = 1
        /\ requests[s].body.periodId \in paid[requests[s].body.employee.addr]

(* C20, as stated.  Settlement is retriable before the PaidFlag is set: a  *)
(* retry arrives, after the earlier attempt has ended, with the proof that *)
(* attempt registered, for a pair that is not paid and whose release would *)
(* now succeed (the cause of the failure is removed); when it comes to     *)
(* registering the proof it is not turned away, it goes on to              *)
(* releaseSalary.                                                          *)
C20_RetryAfterFailedRelease ==
    [][\A s \in Slots :
          /\ requests[s].pc = "verify"
          /\ requests[s].retry
          /\ requests'[s] # requests[s]
          /\ \A t \in Slots \ {s} : requests[t] = Idle
          /\ requests[s].body.periodId \notin paid[requests[s].body.employee.addr]
          /\ salaryVerifyReleaseResult(requests[s].body) = "ok"
          => requests'[s].pc = "release"]_vars

(***************************************************************************)
(* Properties of the ledger and of the employee records.                   *)
(***************************************************************************)

(* C21.  Period balance conservation: every period balance starts at 0,    *)
(* each step changes it by exactly the amount of a successful deposit for  *)
(* that period (added) or of a successful releaseSalary/recordPayment for  *)
(* that period (subtracted) and by nothing else, and it is never negative. *)
C21_PeriodBalanceConservation ==
    [][\A p \in PeriodIds :
          /\ periodBalances'[p] =
                periodBalances[p]
                + (IF last'.op = "depositPayroll" /\ last'.res = "ok" /\ last'.pid = p
                   THEN last'.arg ELSE 0)
                - (IF /\ last'.op \in {"releaseSalary", "recordPayment"}
                      /\ last'.res = "ok" /\ last'.pid = p
                   THEN SettlementAmount(last') ELSE 0)
          /\ periodBalances'[p] >= 0]_vars

(* A settlement has used up the deposits of its period while another       *)
(* period still holds its deposit.                                         *)
C21_Witness ==
    /\ last.op \in {"releaseSalary", "recordPayment"}
    /\ last.res = "ok"
    /\ periodBalances[last.pid] = 0
    /\ \E q \in PeriodIds \ {last.pid} : periodBalances[q] > 0

(* C22.  Reassignment keeps the payment history: a successful              *)
(* assignEmployee for an employee who already exists leaves                *)
(* lastPaidTimestamp, exists, the processed flags and every other employee *)
(* as they were (only salary and cadence are written); for an employee who *)
(* does not exist it creates the record with lastPaidTimestamp equal to    *)
(* the initialLastPaid argument.                                           *)
C22_ReassignmentKeepsHistory ==
    [][(last'.op = "assignEmployee" /\ last'.res = "ok") =>
          /\ employees'[last'.emp].exists
          /\ employees'[last'.emp].salary > 0
          /\ employees'[last'.emp].lastPaidTimestamp =
                IF employees[last'.emp].exists
                THEN employees[last'.emp].lastPaidTimestamp
                ELSE last'.arg
          /\ \A o \in Employees \cup {ZeroAddress} :
                o # last'.emp => employees'[o] = employees[o]
          /\ periodProcessed' = periodProcessed]_vars

(* An employee was reassigned with another initialLastPaid and another     *)
(* cadence, and kept the last paid time of the record.                     *)
C22_Witness ==
    /\ last.op = "assignEmployee"
    /\ last.res = "ok"
    /\ employees[last.emp].lastPaidTimestamp # last.arg
    /\ employees[last.emp].cadence = Monthly

(* C23.  An employee that exists has a positive salary, in the schedule    *)
(* and in the vault mirror, and address(0) is never an employee; an        *)
(* assignEmployee (of the schedule or of the vault) that names address(0)  *)
(* fails, and one that fails changes neither the schedule's records nor    *)
(* the mirror.                                                             *)
C23_EmployeeValidity ==
    /\ [](\A a \in Addresses :
            /\ employees[a].exists => (employees[a].salary > 0 /\ a # ZeroAddress)
            /\ vaultEmployees[a].exists =>
                  (vaultEmployees[a].salary > 0 /\ a # ZeroAddress))
    /\ [][last'.op \in {"assignEmployee", "vaultAssignEmployee"} =>
            /\ last'.emp = ZeroAddress => last'.res # "ok"
            /\ last'.res # "ok" =>
                  (employees' = employees /\ vaultEmployees' = vaultEmployees)]_vars

(* An assignment with salary 0 has just been refused for an employee who   *)
(* is assigned in the schedule and in the mirror.                          *)
C23_Witness ==
    /\ last.op \in {"assignEmployee", "vaultAssignEmployee"}
    /\ last.res = "salary-zero"
    /\ employees[last.emp].exists
    /\ vaultEmployees[last.emp].exists

(* C24, as stated.  The lastPaidTimestamp of a record that exists before   *)
(* and after a step changes only in a successful confirmPaid for that      *)
(* employee.                                                               *)
C24_LastPaidOnlyByConfirmPaid ==
    [][\A a \in Addresses :
          (/\ employees[a].exists
           /\ employees'[a].exists
           /\ employees'[a].lastPaidTimestamp # employees[a].lastPaidTimestamp) =>
             (last'.op = "confirmPaid" /\ last'.res = "ok" /\ last'.emp = a)]_vars

(* C24, amended.  The lastPaidTimestamp of a record that exists before and *)
(* after a step changes only in a successful confirmPaid or a successful   *)
(* setLastPaidTimestamp for that employee, and becomes the timestamp       *)
(* argument of that call.                                                  *)
C24_LastPaidOnlyByConfirmOrAdminSet ==
    [][\A a \in Addresses :
          (/\ employees[a].exists
           /\ employees'[a].exists
           /\ employees'[a].lastPaidTimestamp # employees[a].lastPaidTimestamp) =>
             /\ last'.op \in {"confirmPaid", "setLastPaidTimestamp"}
             /\ last'.res = "ok"
             /\ last'.emp = a
             /\ employees'[a].lastPaidTimestamp = last'.arg]_vars

(* A confirmPaid has succeeded and moved the last paid time forward to its *)
(* argument.                                                               *)
C24_Witness ==
    /\ last.op = "confirmPaid"
    /\ last.res = "ok"
    /\ last.arg > 0
    /\ employees[last.emp].exists
    /\ employees[last.emp].lastPaidTimestamp = last.arg

(* C25.  adminEmitSalaryDue is a pure signal: it changes no state of the   *)
(* schedule, the vault, the verifier or the token (so an (employee,        *)
(* period) that releaseSalary would settle before it is one it would       *)
(* settle after it) and makes no call into the vault; it succeeds for an   *)
(* assigned employee and fails with not-assigned for an unassigned one,    *)
(* when called by the owner.                                               *)
C25_AdminEmitPureSignal ==
    [][last'.op = "adminEmitSalaryDue" =>
          /\ UNCHANGED <<scheduleVars, vaultVars, verifierVars>>
          /\ last'.inner = "none"
          /\ last'.res = IF scheduleOwner # "admin" THEN "unauthorized"
                         ELSE IF employees[last'.emp].exists THEN "ok"
                         ELSE "not-assigned"
          /\ \A a \in Employees, p \in PeriodIds :
                releaseSalaryResult(a, p)' = releaseSalaryResult(a, p)]_vars

(* The signal has been emitted for a pair that the release-mode vault can  *)
(* still settle: funded, verified, due, not paid.                          *)
C25_Witness ==
    /\ last.op = "adminEmitSalaryDue"
    /\ last.res = "ok"
    /\ vaultMode = "release"
    /\ releaseSalaryResult(last.emp, last.pid) = "ok"

C26_WitnessViews ==
    /\ last.op = "releaseSalary"
    /\ last.res = "ok"
    /\ last.inner = "views"
    /\ last.seen.isPaid

(* The reason of the first check that does not pass, "none" when all do;   *)
(* a check is a pair <<passes, reason>>.                                   *)
RECURSIVE FirstFailure(_)
FirstFailure(checks) ==
    IF checks = <<>> THEN "none"
    ELSE IF ~Head(checks)[1] THEN Head(checks)[2]
    ELSE FirstFailure(Tail(checks))

StatedReleaseChecks(e, p) ==
    << <<vaultEmployees[e].exists, "employee-not-assigned">>,
       <<p \notin paid[e], "already-paid">>,
       <<isDue(e, p)[1], isDue(e, p)[2]>>,
       <<(<<e, p>> \in isVerified), "payment-not-verified">>,
       <<periodBalances[p] >= vaultEmployees[e].salary, "insufficient-period-funds">> >>

ConfiguredReleaseChecks(e, p) ==
    << <<vaultEmployees[e].exists, "employee-not-assigned">>,
       <<p \notin paid[e], "already-paid">>,
       <<salarySchedule, "schedule-not-set">>,
       <<isDue(e, p)[1], isDue(e, p)[2]>>,
       <<paymentVerifier, "verifier-not-set">>,
       <<(<<e, p>> \in isVerified), "payment-not-verified">>,
       <<periodBalances[p] >= vaultEmployees[e].salary, "insufficient-period-funds">> >>

FailedReleaseChangesNothing ==
    last'.res # "ok" =>
        UNCHANGED <<paid, periodBalances, totalBalance, tokenBalance, scheduleVars>>

(* C27, as stated.  releaseSalary fails with the reason of the first       *)
(* failing check in the order employee-not-assigned, already-paid, the     *)
(* isDue reason, payment-not-verified, insufficient-period-funds, and a    *)
(* failing releaseSalary leaves the PaidFlags, the balances and the        *)
(* schedule unchanged.                                                     *)
C27_ReleaseCheckOrder ==
    [][last'.op = "releaseSalary" =>
          /\ FirstFailure(StatedReleaseChecks(last'.emp, last'.pid)) # "none" =>
                last'.res = FirstFailure(StatedReleaseChecks(last'.emp, last'.pid))
          /\ FailedReleaseChangesNothing]_vars

(* C27, amended.  The order of the checks has two more members: the vault  *)
(* fails with schedule-not-set before asking isDue when it has no          *)
(* schedule, and with verifier-not-set before asking isVerified when it    *)
(* has no verifier.  When all checks pass the release succeeds or fails in *)
(* the subtraction or the token transfer.  A failing releaseSalary leaves  *)
(* the PaidFlags, the balances and the schedule unchanged.                 *)
C27_ReleaseCheckOrderConfigured ==
    [][last'.op = "releaseSalary" =>
          LET first == FirstFailure(ConfiguredReleaseChecks(last'.emp, last'.pid)) IN
          /\ first # "none" => last'.res = first
          /\ first = "none" => last'.res \in {"ok", "panic", "transfer-failed"}
          /\ FailedReleaseChangesNothing]_vars

(* A release has failed on the proof for a pair whose period is not funded *)
(* either: the earlier of the two failing checks was reported.             *)
C27_Witness ==
    /\ last.op = "releaseSalary"
    /\ last.res = "payment-not-verified"
    /\ periodBalances[last.pid] < vaultEmployees[last.emp].salary

(* C28.  removeEmployee by the owner fails with not-assigned for an absent *)
(* record and otherwise deletes that record only: every ProcessedFlag,     *)
(* every other record and the rest of the state stay as they were.  So     *)
(* when an absent employee who has processed periods is assigned anew,     *)
(* isDue answers already-processed for each of those periods that is       *)
(* aligned to the new cadence.                                             *)
C28_RemoveKeepsProcessedFlags ==
    /\ [][last'.op = "removeEmployee" =>
            /\ last'.res = IF scheduleOwner # "admin" THEN "unauthorized"
                           ELSE IF employees[last'.emp].exists THEN "ok"
                           ELSE "not-assigned"
            /\ periodProcessed' = periodProcessed
            /\ employees' = IF last'.res = "ok"
                            THEN [employees EXCEPT ![last'.emp] = NoEmployee]
                            ELSE employees
            /\ UNCHANGED <<payrollVault, scheduleOwner, vaultVars, verifierVars>>]_vars
    /\ [][\A a \in Employees :
            (/\ last'.op = "assignEmployee"
             /\ last'.res = "ok"
             /\ last'.emp = a
             /\ ~employees[a].exists) =>
               \A p \in periodProcessed[a] :
                  isPeriodAligned(employees'[a].cadence, p) =>
                     isDue(a, p)' = <<FALSE, "already-processed">>]_vars

(* An employee has been removed whose processed flags are still set.       *)
C28_Witness ==
    /\ last.op = "removeEmployee"
    /\ last.res = "ok"
    /\ ~employees[last.emp].exists
    /\ periodProcessed[last.emp] # {}

CallerCadenceDuration(code) ==
    IF code = 0 THEN HOUR ELSE IF code = 1 THEN BIWEEK ELSE THIRTY_DAY

(* C30.  Cadence codes mean the same everywhere: code 2 given to          *)
(* assignEmployee denotes the monthly cadence, so an employee assigned     *)
(* with code 2 who was never paid and has no processed period is due for   *)
(* exactly the positive periodIds that are multiples of 2,592,000.         *)
C30_CadenceCodesAgree ==
    \A a \in Employees, p \in PeriodIds :
       (/\ employees[a].exists
        /\ employees[a].cadence = VAULT_MONTHLY
        /\ employees[a].lastPaidTimestamp = 0
        /\ periodProcessed[a] = {}
        /\ p > 0) =>
          (isDue(a, p)[1] <=> p % CallerCadenceDuration(employees[a].cadence) = 0)

(***************************************************************************)
(* Properties of the proof codec.                                          *)
(***************************************************************************)

(* C31.  Proof decoding inverts proof encoding and ignores trailing bytes: *)
(* parseFacilitatorProof of the proof built for (e, p, a), followed by any *)
(* extra bytes, returns the address e, periodId p and amount a (and the    *)
(* extra bytes apart); an input shorter than 84 bytes is rejected.         *)
C31_ParseInvertsBuild ==
    /\ \A e \in Addresses, p \in CodecWords, a \in CodecAmounts, extra \in Extras :
          normalizeToBuffer(parseCall.input) = buildFacilitatorProofHex(e, p, a) \o extra =>
             /\ "error" \notin DOMAIN parseCall.result
             /\ parseCall.result.employee.addr = e
             /\ parseCall.result.periodId = p
             /\ parseCall.result.amount = a
             /\ parseCall.result.extra = extra
    /\ (last.op = "parseFacilitatorProof"
          /\ Len(normalizeToBuffer(parseCall.input)) < MIN_PROOF_BYTES) =>
             parseCall.result = ParseError("facilitatorProof-too-short")

(* A proof with a four-byte periodId and two bytes after the layout has    *)
(* been parsed.                                                            *)
C31_Witness ==
    /\ last.op = "parseFacilitatorProof"
    /\ Len(normalizeToBuffer(parseCall.input)) = MIN_PROOF_BYTES + 2
    /\ parseCall.input.prefix = "0X"
    /\ parseCall.result.periodId = MaxWord
    /\ parseCall.result.employee.addr = "e2"

(***************************************************************************)
(* Properties of the scheduler.                                            *)
(***************************************************************************)

(* C32.  The scheduler avoids double-processing: for every key the payout  *)
(* flow is completed at most once, however the SalaryDue event is          *)
(* delivered; a key enters processedSet only when the backend has answered *)
(* 200 to the POST of that call, and an attempt that fails leaves          *)
(* processedSet unchanged.                                                 *)
C32_SchedulerProcessesOnce ==
    /\ [](\A k \in SchedulerKeys : flows[k] <= 1)
    /\ [][processedSet' # processedSet =>
            (/\ last'.op = "handleSalaryDueEvent:verify"
             /\ last'.res = "ok"
             /\ processedSet \subseteq processedSet')]_vars

(* C37.  The scheduler records the payout it made: whenever a key enters   *)
(* processedSet, it is the key of the employee and periodId of the payload *)
(* just posted to /salary/verify, and of the proof in that payload.        *)
C37_KeyIsPayoutPosted ==
    [][\A k \in SchedulerKeys : (k \in processedSet' /\ k \notin processedSet) =>
          /\ k = schedulerKey(AddressText(last'.emp, "checksum"), last'.pid)
          /\ LET proof == parseFacilitatorProof(last'.arg) IN
             /\ "error" \notin DOMAIN proof
             /\ k = schedulerKey(proof.employee, proof.periodId)]_vars

(***************************************************************************)
(* Properties of the webhook backend.                                      *)
(***************************************************************************)
IsWebhookAnswer(call) == call.op = "salaryWebhook" /\ call.res # "pending"

(* C33.  Webhook IDs give exactly-once processing: for every webhook ID    *)
(* the backend sends recordPayment at most once, whatever the              *)
(* interleaving of its deliveries, and every delivery answered after the   *)
(* ID has been processed is answered already-processed or                  *)
(* already-recorded.                                                       *)
C33_WebhookExactlyOnce ==
    /\ [](\A w \in WebhookIds : webhookLog[w].recordPayment <= 1)
    /\ [][\A w \in WebhookIds :
            (/\ IsWebhookAnswer(last')
             /\ last'.inner = w
             /\ webhookLog[w].success
             /\ last'.res # "invalid-signature") =>
               last'.res \in {"already-processed", "already-recorded"}]_vars

(***************************************************************************)
(* Further properties of the backend's settlement requests.                *)
(***************************************************************************)

(* C34.  The backend marks a payout key processed only after a release: a  *)
(* key is in processedPayouts only if a releaseSalary sent by the endpoint *)
(* for its (employee, periodId) has succeeded, so the pair is paid in the  *)
(* vault, and already_processed is answered only for such pairs.           *)
C34_ProcessedOnlyAfterRelease ==
    /\ [](\A a \in Employees, p \in PeriodIds :
            payoutKey(AddressText(a, "lower"), p) \in processedPayouts =>
               /\ orchestrated[payoutKey(AddressText(a, "lower"), p)] >= 1
               /\ p \in paid[a])
    /\ [][\A a \in Employees, p \in PeriodIds :
            (/\ last'.op = "POST /salary/verify"
             /\ last'.res = "already_processed"
             /\ last'.emp = a /\ last'.pid = p) => p \in paid'[a]]_vars

(***************************************************************************)
(* Further properties of the schedule and the release-mode vault.          *)
(***************************************************************************)

(* C35.  No due-signal for a paid pair: without adminClearProcessed and    *)
(* adminClearPaid, triggerSalaryDue(e, p) never succeeds while the         *)
(* PaidFlag of (e, p) is set in the vault.                                 *)
C35_NoSignalForPaidPair ==
    [][\A e \in Employees, p \in PeriodIds :
          (/\ last'.op = "triggerSalaryDue"
           /\ last'.emp = e /\ last'.pid = p
           /\ last'.res = "ok") => p \notin paid[e]]_vars

(* C36.  In the release-mode vault totalBalance equals the sum of all      *)
(* period balances in every state reached by depositPayroll,               *)
(* releaseSalary, withdrawExcess, assignEmployee and adminClearPaid.       *)
C36_TotalIsSumOfPeriods ==
    vaultMode = "release" => totalBalance = SumBalances(periodBalances, PeriodIds)

(* The release-mode vault has released a salary and still holds funds of   *)
(* the period.                                                             *)
C36_Witness ==
    /\ vaultMode = "release"
    /\ last.op = "releaseSalary"
    /\ last.res = "ok"
    /\ periodBalances[last.pid] > 0
    /\ totalBalance = periodBalances[last.pid]
    /\ tokenBalance[last.emp] > 0

(* C38.  For an assigned employee with lastPaidTimestamp > 0,              *)
(* nextExpectedPeriod returns a periodId that is a multiple of the         *)
(* duration of the employee's current cadence and strictly greater than    *)
(* lastPaidTimestamp, so that isDue of that periodId is true or fails with *)
(* already-processed, never for another reason.                            *)
C38_NextPeriodIsDueUnlessProcessed ==
    [][(/\ last'.op = "nextExpectedPeriod"
        /\ last'.res = "ok"
        /\ employees[last'.emp].lastPaidTimestamp > 0) =>
          LET e == employees[last'.emp] IN
          /\ isPeriodAligned(e.cadence, last'.pid)
          /\ last'.pid > e.lastPaidTimestamp
          /\ isDue(last'.emp, last'.pid) =
                IF last'.pid \in periodProcessed[last'.emp]
                THEN <<FALSE, "already-processed">> ELSE <<TRUE, "">>]_vars

(* The view has answered, for an employee paid before at a time that is    *)
(* not aligned to the cadence, with a period that is already processed.    *)
C38_Witness ==
    /\ last.op = "nextExpectedPeriod"
    /\ last.res = "ok"
    /\ employees[last.emp].lastPaidTimestamp > 0
    /\ ~isPeriodAligned(employees[last.emp].cadence, employees[last.emp].lastPaidTimestamp)
    /\ last.pid \in periodProcessed[last.emp]

(***************************************************************************)
(* Further properties of the local Verifier.                               *)
(***************************************************************************)

(* The verify calls for rawHex `raw` that have returned true or will, once *)
(* their delay ends.                                                       *)
AcceptedCalls(raw) ==
    Returned(raw)
       + Cardinality({c \in Callers : verifyCalls[c] = [pc |-> "delay", rawHex |-> raw]})

(* C39.  The check-and-mark of Verifier.verify is atomic under             *)
(* concurrency: among overlapping verify calls given the same raw proof at *)
(* most one returns true, and a call rejected for a structural reason or   *)
(* for a processed payout does not mark the proof as seen.                 *)
C39_VerifyCheckAndMarkAtomic ==
    /\ [](\A input \in VerifierInputs : AcceptedCalls(input.rawHex) <= 1)
    /\ [][(last'.op = "Verifier.verify" /\ last'.res = "false") =>
            UNCHANGED <<proofSeen, localProcessed>>]_vars

(* A call is waiting in its delay with its proof marked as seen, a second  *)
(* call with the same raw proof has just been refused, and the proof of a  *)
(* processed payout is not marked as seen.                                 *)
C39_Witness ==
    /\ last.op = "Verifier.verify"
    /\ last.res = "false"
    /\ \E c \in Callers : verifyCalls[c] = [pc |-> "delay", rawHex |-> last.arg]
    /\ \E input \in VerifierInputs :
          /\ normalizeInput(input) # Null
          /\ keyFor(normalizeInput(input).employee, normalizeInput(input).periodId)
                \in localProcessed
          /\ input.rawHex \notin proofSeen

====
